---- MODULE Spec2Model ----
(***************************************************************************)
(* The FastCGI client of requests_cgi (package requests_cgi/fcgi_adapter): *)
(* FastCGIAdapter.execute_send / await_response over an ExternalConnection.*)
(* One exchange = one call of execute_send.  The backend and the socket    *)
(* are the environment: connect may fail, send may accept a prefix of the  *)
(* packet or raise, a read yields a record, end of stream, a timeout or a  *)
(* socket error.                                                           *)
(***************************************************************************)
EXTENDS Integers, Sequences, FiniteSets, TLC

\* ---------------------------------------------------------------- bounds
\* exchanges (execute_send calls) started in one run
MaxExchanges == 2
\* records one receive loop reads before the stream ends or fails
MaxRecords == 2
\* records the backend writes to the stream that is read byte by byte
MaxStreamRecords == 2

\* ------------------------------------------------------ program constants
\* Python None, in a table slot and as the socket of a closed connection
None == [none |-> TRUE]

FASTCGI_VERSION == 1

Role == [responder |-> 1, authorizer |-> 2, filter |-> 3]

RecordType ==
  [begin |-> 1, abort |-> 2, end |-> 3, params |-> 4, stdin |-> 5, stdout |-> 6,
   stderr |-> 7, data |-> 8, get_values |-> 9, get_values_result |-> 10,
   unknown_type |-> 11]

State == [send |-> 1, error |-> 2, success |-> 3]

\* _HEADER_STRUCT = Struct(">BBHHBx"): 8 bytes, request_id and content_length
\* are unsigned 16-bit fields ('H'), version, type and padding_length 8-bit ('B')
HeaderSize == 8
MaxUInt16 == 65535
MaxUInt8 == 255

\* _BEGIN_REQUEST_STRUCT = Struct(">HBxxxxx"): role(2) flags(1) reserved(5)
BeginBodySize == 8

\* BeginRequestOptions(0): no keep_connection flag
NoFlags == 0

\* the callers (threads) that may call execute_send on the one adapter
Callers == {1, 2}

\* ----------------------------------------------------------------- inputs
\* len(params): bytes of the NameValue-encoded environment (0: env is empty)
ParamLens == {0, 24}
\* len(stdin): bytes of the request body (0: no body; 65536: one byte more
\* than a record's content_length field holds)
StdinLens == {0, 5, 65536}
\* what socket.recv raises
RecvErrors == {"recv: TimeoutError", "recv: SocketError"}
\* request IDs of the records a backend sends (0: a management record)
RecvIds == 0..2
\* types of the records a backend sends
RecvTypes == {RecordType.end, RecordType.stdout, RecordType.stderr,
              RecordType.get_values_result}

VARIABLES
  requests,   \* FastCGIAdapter.requests, the request table: slot 0 and the slots above base
  base,       \* the slots 1..base of the table: ActiveRequests that exchanges which
              \* ended in a read failure long ago left there, kept by their number
  socket,     \* Connection.socket: None, or the open connection [conn |-> its number]
  nconn,      \* connections made so far (the identity of the newest one)
  writers,    \* the exchanges whose bytes reached the backend over the open connection
  nexch,      \* exchanges started so far
  call,       \* per caller: the frame of its execute_send call
  healthy,    \* history: backend and socket have behaved as a healthy FastCGI responder so far
  stream,     \* the bytes the backend wrote to the connection that no read has returned yet
  reader,     \* the frame of the receive loop, read by read, with the records it was returned
  codec,      \* a RecordHeader or a list of NameValue pairs, and its encoding
  cgi         \* the frame of what runs beside the exchanges: build_response on a raw
              \* output, a child process, the building of the environment, or the
              \* timeout and the backend of the run

\* the state of the exchanges
exchangeVars == <<requests, base, socket, nconn, writers, nexch, call, healthy>>

\* the state of the record codec, the byte-level reader and the response parser
codecVars == <<stream, reader, codec, cgi>>

vars == <<exchangeVars, codecVars>>

\* ---------------------------------------------------------------- helpers
\* ActiveRequest(id, state, content)
ActiveRequest(id, state, content) == [id |-> id, state |-> state, content |-> content]

\* len(self.requests)
TableLen(table) == base + Len(table)

\* Python list access: requests[i]
Slot(table, i) ==
  IF i = 0 THEN table[1]
  ELSE IF i <= base THEN ActiveRequest(i, State.send, <<>>)
  ELSE table[i - base + 1]

\* Python: requests[i] = v, for a slot above base
SetSlot(table, i, v) == [table EXCEPT ![i - base + 1] = v]

\* the indices i >= 1 of the table whose slot is None
FreeIndices(table) ==
  {base + k : k \in {j \in 1..(Len(table) - 1) : table[j + 1] = None}}

Min(S) == CHOOSE x \in S : \A y \in S : x <= y

Max(S) == CHOOSE x \in S : \A y \in S : y <= x

\* self.requests.index(None, 1), or on ValueError len(self.requests)
AcquireIndex(table) ==
  IF FreeIndices(table) # {} THEN Min(FreeIndices(table)) ELSE TableLen(table)

\* the table after acquisition: append(None) only on ValueError
AcquireTable(table) ==
  IF FreeIndices(table) # {} THEN table ELSE Append(table, None)

\* RecordHeader(version, type, request_id, content_length, padding_length)
RecordHeader(version, type, request_id, content_length, padding_length) ==
  [version |-> version, type |-> type, request_id |-> request_id,
   content_length |-> content_length, padding_length |-> padding_length]

\* a byte string the records carry, by what it is and how long it is
Bytes(kind, len) == [kind |-> kind, len |-> len, role |-> 0, flags |-> 0]

\* BeginRequestBody(role, flags).encode(): 8 bytes holding role and flags
BeginRequestBody(role, flags) ==
  [kind |-> "begin_body", len |-> BeginBodySize, role |-> role, flags |-> flags]

\* Record.create(fcgi_type, content, req_id): padding_length is always 0
RecordCreate(fcgi_type, content, req_id) ==
  [header |-> RecordHeader(FASTCGI_VERSION, fcgi_type, req_id, content.len, 0),
   content |-> content]

\* RecordHeader.encode(): struct.pack raises struct.error for a field out of range
HeaderEncodable(h) ==
  /\ h.version \in 0..MaxUInt8
  /\ h.type \in 0..MaxUInt8
  /\ h.request_id \in 0..MaxUInt16
  /\ h.content_length \in 0..MaxUInt16
  /\ h.padding_length \in 0..MaxUInt8

\* len(Record.encode()): header, content, padding
EncodedSize(rec) == HeaderSize + rec.content.len + rec.header.padding_length

RECURSIVE PacketSize(_)
PacketSize(recs) ==
  IF recs = <<>> THEN 0 ELSE EncodedSize(Head(recs)) + PacketSize(Tail(recs))

\* the records execute_send concatenates into the packet, in order
Assembled(req_id, plen, slen) ==
  <<RecordCreate(RecordType.begin, BeginRequestBody(Role.responder, NoFlags), req_id)>>
  \o (IF plen > 0 THEN <<RecordCreate(RecordType.params, Bytes("params", plen), req_id)>>
      ELSE <<>>)
  \o <<RecordCreate(RecordType.params, Bytes("empty", 0), req_id)>>
  \o (IF slen > 0 THEN <<RecordCreate(RecordType.stdin, Bytes("stdin", slen), req_id)>>
      ELSE <<>>)
  \o <<RecordCreate(RecordType.stdin, Bytes("empty", 0), req_id)>>

\* the records of the packet that lie wholly within its first n bytes
RECURSIVE RecordsWithin(_, _)
RecordsWithin(recs, n) ==
  IF recs = <<>> \/ EncodedSize(Head(recs)) > n THEN <<>>
  ELSE <<Head(recs)>> \o RecordsWithin(Tail(recs), n - EncodedSize(Head(recs)))

\* the byte counts socket.send may return for a packet: all of it, or less
\* (the first record alone, or one byte short of the whole)
SendCounts(recs) ==
  IF recs = <<>> THEN {}
  ELSE {PacketSize(recs), PacketSize(recs) - 1, EncodedSize(Head(recs))}

\* the frame of a caller that is not inside execute_send (attached: the
\* content the exception that ended the call carries, beside its message;
\* stdout: history, the contents of the Stdout records with the acquired ID
\* in the order the loop read them)
IdleFrame ==
  [pc |-> "idle", exch |-> 0, plen |-> 0, slen |-> 0, req_id |-> 0,
   packet |-> <<>>, written |-> <<>>, sent |-> 0, conn |-> 0,
   opened |-> FALSE, nread |-> 0, ignored |-> 0, sawStderr |-> FALSE,
   sawEnd |-> FALSE, endAfterStderr |-> FALSE, applied |-> {}, stdout |-> <<>>,
   cause |-> "", outcome |-> "", response |-> <<>>, attached |-> <<>>]

\* the caller holds a request ID: acquired and not yet released
Holding(c) == call[c].pc \in {"assemble", "send", "await"}

\* the whole packet was accepted by the socket
FullySent(c) == call[c].sent = PacketSize(call[c].packet)

\* nothing is being read, encoded or parsed apart from the exchanges
CodecIdle ==
  /\ stream = <<>>
  /\ reader = None
  /\ codec = None
  /\ cgi = None

Init ==
  /\ requests = <<None>>
  /\ base = 0
  /\ socket = None
  /\ nconn = 0
  /\ writers = {}
  /\ nexch = 0
  /\ call = [c \in Callers |-> IdleFrame]
  /\ healthy = TRUE
  /\ CodecIdle

\* ---------------------------------------------------- execute_send, by step
\* the caller leaves execute_send with exception err; cause is what went wrong
\* underneath (the exception of the socket or of struct that set it off)
Raise(c, cause, err) ==
  [call EXCEPT ![c].pc = "done", ![c].cause = cause, ![c].outcome = err]

\* a caller enters execute_send(request, env, stdin, timeout)
StartExchange(c, plen, slen) ==
  /\ call[c].pc \in {"idle", "done"}
  /\ nexch < MaxExchanges
  /\ nexch' = nexch + 1
  /\ call' = [call EXCEPT ![c] =
                [IdleFrame EXCEPT !.pc = "open", !.exch = nexch + 1,
                                  !.plen = plen, !.slen = slen]]
  /\ UNCHANGED <<requests, base, socket, nconn, writers, healthy, codecVars>>

\* ExternalConnection.open(): the socket is already there, nothing is done
OpenReuse(c) ==
  /\ call[c].pc = "open"
  /\ socket # None
  /\ call' = [call EXCEPT ![c].pc = "acquire", ![c].conn = socket.conn]
  /\ UNCHANGED <<requests, base, socket, nconn, writers, nexch, healthy, codecVars>>

\* ExternalConnection.open(): sock.connect succeeds
OpenConnect(c) ==
  /\ call[c].pc = "open"
  /\ socket = None
  /\ nconn' = nconn + 1
  /\ socket' = [conn |-> nconn + 1]
  /\ writers' = {}
  /\ call' = [call EXCEPT ![c].pc = "acquire", ![c].conn = nconn + 1,
                          ![c].opened = TRUE]
  /\ UNCHANGED <<requests, base, nexch, healthy, codecVars>>

\* as OpenFail, but self.socket is set before sock.connect is tried
OpenFail_KeepsSocket(c) ==
  /\ call[c].pc = "open"
  /\ socket = None
  /\ nconn' = nconn + 1
  /\ socket' = [conn |-> nconn + 1]
  /\ call' = Raise(c, "connect: SocketError", "ConnectionError: Could not connect")
  /\ healthy' = FALSE
  /\ UNCHANGED <<requests, base, writers, nexch, codecVars>>

\* ExternalConnection.open(): sock.connect raises SocketError; the new socket
\* is closed and ConnectionError("Could not connect to ...") is raised
OpenFail(c) ==
  /\ call[c].pc = "open"
  /\ socket = None
  /\ call' = Raise(c, "connect: SocketError", "ConnectionError: Could not connect")
  /\ healthy' = FALSE
  /\ UNCHANGED <<requests, base, socket, nconn, writers, nexch, codecVars>>

\* the lowest available request ID, growing the table when none is free
AcquireId(c) ==
  /\ call[c].pc = "acquire"
  /\ requests' = AcquireTable(requests)
  /\ call' = [call EXCEPT ![c].pc = "assemble", ![c].req_id = AcquireIndex(requests)]
  /\ UNCHANGED <<base, socket, nconn, writers, nexch, healthy, codecVars>>

\* the packet is assembled: begin, params, empty params, stdin, empty stdin
Assemble(c) ==
  /\ call[c].pc = "assemble"
  /\ LET recs == Assembled(call[c].req_id, call[c].plen, call[c].slen)
     IN  /\ \A k \in 1..Len(recs) : HeaderEncodable(recs[k].header)
         /\ call' = [call EXCEPT ![c].pc = "send", ![c].packet = recs]
  /\ UNCHANGED <<requests, base, socket, nconn, writers, nexch, healthy, codecVars>>

\* Record.encode() raises struct.error: a header field does not fit its width
AssembleRaise(c) ==
  /\ call[c].pc = "assemble"
  /\ LET recs == Assembled(call[c].req_id, call[c].plen, call[c].slen)
     IN  \E k \in 1..Len(recs) : ~HeaderEncodable(recs[k].header)
  /\ call' = Raise(c, "struct.error", "struct.error")
  /\ UNCHANGED <<requests, base, socket, nconn, writers, nexch, healthy, codecVars>>

\* socket.send(packet) returns n, the slot is set, the receive loop is entered
Send(c, n) ==
  /\ call[c].pc = "send"
  /\ socket # None
  /\ n \in 1..PacketSize(call[c].packet)
  /\ writers' = writers \cup {call[c].exch}
  /\ requests' = SetSlot(requests, call[c].req_id,
                         ActiveRequest(call[c].req_id, State.send, <<>>))
  /\ call' = [call EXCEPT ![c].pc = "await", ![c].sent = n,
                          ![c].written = RecordsWithin(call[c].packet, n)]
  /\ UNCHANGED <<base, socket, nconn, nexch, healthy, codecVars>>

\* socket.send(packet) raises (timeout, broken pipe): nothing catches it
SendRaise(c) ==
  /\ call[c].pc = "send"
  /\ socket # None
  /\ call' = Raise(c, "send: OSError", "OSError")
  /\ healthy' = FALSE
  /\ UNCHANGED <<requests, base, socket, nconn, writers, nexch, codecVars>>

\* ------------------------------------------------ CGIAdapter.build_response
\* a byte string is the sequence of its characters
Whitespace == {" ", "\t", "\r", "\n"}

Digits == <<"0", "1", "2", "3", "4", "5", "6", "7", "8", "9">>

UpperCase ==
  <<"A", "B", "C", "D", "E", "F", "G", "H", "I", "J", "K", "L", "M", "N", "O", "P", "Q", "R", "S", "T", "U", "V", "W", "X", "Y", "Z">>

LowerCase ==
  <<"a", "b", "c", "d", "e", "f", "g", "h", "i", "j", "k", "l", "m", "n", "o", "p", "q", "r", "s", "t", "u", "v", "w", "x", "y", "z">>

\* F(x) with x evaluated first, as Python evaluates the argument of a call
Call(F(_), x) == CHOOSE r \in {F(v) : v \in {x}} : TRUE

IsDigit(ch) == \E i \in 1..10 : Digits[i] = ch

DigitValue(ch) == (CHOOSE i \in 1..10 : Digits[i] = ch) - 1

\* str.lower(), character by character
ToLower(s) ==
  Call(LAMBDA v :
         [i \in 1..Len(v) |->
            IF \E k \in 1..26 : UpperCase[k] = v[i]
              THEN LowerCase[CHOOSE k \in 1..26 : UpperCase[k] = v[i]]
              ELSE v[i]],
       s)

\* bytes.startswith(prefix)
StartsWith(s, prefix) ==
  Call(LAMBDA v : Len(v) >= Len(prefix) /\ SubSeq(v, 1, Len(prefix)) = prefix, s)

\* the index of the first ch in s, 0 when there is none
IndexOf(s, ch) ==
  Call(LAMBDA v :
         IF \E i \in 1..Len(v) : v[i] = ch
           THEN Min({i \in 1..Len(v) : v[i] = ch}) ELSE 0,
       s)

\* s[n:]
From(s, n) ==
  Call(LAMBDA v : IF n >= Len(v) THEN <<>> ELSE SubSeq(v, n + 1, Len(v)), s)

\* str.strip(): without the whitespace at both ends
Strip(s) ==
  Call(LAMBDA v :
         LET inner == {i \in 1..Len(v) : v[i] \notin Whitespace}
         IN  IF inner = {} THEN <<>> ELSE SubSeq(v, Min(inner), Max(inner)),
       s)

\* str.lstrip()
LStrip(s) ==
  Call(LAMBDA v :
         LET inner == {i \in 1..Len(v) : v[i] \notin Whitespace}
         IN  IF inner = {} THEN <<>> ELSE SubSeq(v, Min(inner), Len(v)),
       s)

\* the first run of characters of s that are not whitespace, s not starting
\* with whitespace
Token(s) ==
  Call(LAMBDA v :
         IF \E i \in 1..Len(v) : v[i] \in Whitespace
           THEN SubSeq(v, 1, Min({i \in 1..Len(v) : v[i] \in Whitespace}) - 1)
           ELSE v,
       s)

\* the value of the first n characters of a run of digits and underscores
RECURSIVE DigitsValue(_, _)
DigitsValue(s, n) ==
  IF n = 0 THEN 0
  ELSE IF s[n] = "_" THEN DigitsValue(s, n - 1)
  ELSE 10 * DigitsValue(s, n - 1) + DigitValue(s[n])

\* int(s) of Python: whitespace around is dropped, one sign may lead, the
\* digits may hold single underscores between them; else ValueError (ok FALSE)
PyInt(s) ==
  Call(LAMBDA t :
         Call(LAMBDA body :
                IF /\ body # <<>>
                   /\ IsDigit(body[1]) /\ IsDigit(body[Len(body)])
                   /\ \A i \in 1..Len(body) :
                        \/ IsDigit(body[i])
                        \/ body[i] = "_" /\ i < Len(body) /\ body[i + 1] # "_"
                  THEN [ok |-> TRUE,
                        value |-> IF t[1] = "-" THEN 0 - DigitsValue(body, Len(body))
                                  ELSE DigitsValue(body, Len(body))]
                  ELSE [ok |-> FALSE, value |-> 0],
              IF t # <<>> /\ t[1] \in {"+", "-"} THEN Tail(t) ELSE t),
       Strip(s))

\* b'HTTP/'
HTTP_SLASH == <<"H", "T", "T", "P", "/">>

\* b'HTTP/1.1 200\n', the status line put before output without one
PLACEHOLDER == <<"H", "T", "T", "P", "/", "1", ".", "1", " ", "2", "0", "0", "\n">>

\* as is_parsed_mode, but taking every output as CGI headers
is_parsed_mode_Always(raw_response) == TRUE

\* is_parsed_mode = not raw_response.startswith(b'HTTP/')
is_parsed_mode(raw_response) == ~StartsWith(raw_response, HTTP_SLASH)

\* fp.readline(): up to and with the first newline, or all that is left
ReadLine(s) ==
  Call(LAMBDA v : IF IndexOf(v, "\n") = 0 THEN v ELSE SubSeq(v, 1, IndexOf(v, "\n")), s)

\* HTTPResponse._read_status(): version, status and reason of the status
\* line; BadStatusLine (ok FALSE) unless the version starts with HTTP/ and the
\* status is an integer from 100 to 999
ReadStatus(line) ==
  Call(LAMBDA stripped :
    Call(LAMBDA version :
      Call(LAMBDA afterVersion :
        Call(LAMBDA status :
               [ok |-> /\ StartsWith(version, HTTP_SLASH)
                       /\ status.ok /\ status.value >= 100 /\ status.value <= 999,
                version |-> version, status |-> status.value,
                reason |-> Strip(From(afterVersion, Len(Token(afterVersion))))],
             PyInt(Token(afterVersion))),
        LStrip(From(stripped, Len(version)))),
      Token(stripped)),
    LStrip(line))

\* HTTPResponse.begin(): UnknownProtocol unless the version is HTTP/1.x or 0.9
VersionKnown(version) ==
  StartsWith(version, <<"H", "T", "T", "P", "/", "1", ".">>) \/ version = <<"H", "T", "T", "P", "/", "0", ".", "9">>

\* the header lines of the message: the lines after the status line up to the
\* blank line (or the end), and what is left after them for the body
RECURSIVE HeaderLines(_)
HeaderLines(s) ==
  Call(LAMBDA v :
         IF v = <<>> \/ Strip(ReadLine(v)) = <<>> THEN <<>>
         ELSE <<ReadLine(v)>> \o HeaderLines(From(v, Len(ReadLine(v)))),
       s)

RECURSIVE AfterHeaders(_)
AfterHeaders(s) ==
  Call(LAMBDA v :
         IF v = <<>> THEN <<>>
         ELSE IF Strip(ReadLine(v)) = <<>> THEN From(v, Len(ReadLine(v)))
         ELSE AfterHeaders(From(v, Len(ReadLine(v)))),
       s)

\* the headers of the lines: name before the colon, value after it without the
\* whitespace around; a line without a colon ends the headers
RECURSIVE ParseHeaders(_)
ParseHeaders(lines) ==
  Call(LAMBDA v :
         IF v = <<>> \/ IndexOf(Head(v), ":") = 0 THEN <<>>
         ELSE <<[name |-> SubSeq(Head(v), 1, IndexOf(Head(v), ":") - 1),
                 value |-> Strip(From(Head(v), IndexOf(Head(v), ":")))]>>
              \o ParseHeaders(Tail(v)),
       lines)

\* CaseInsensitiveDict(headers).get(key): the value of the last header whose
\* name is key in lower case (found FALSE: None)
Lookup(headers, key) ==
  Call(LAMBDA v :
         LET hits == {i \in 1..Len(v) : ToLower(v[i].name) = key}
         IN  IF hits = {} THEN [found |-> FALSE, value |-> <<>>]
             ELSE [found |-> TRUE, value |-> v[Max(hits)].value],
       headers)

\* as StatusCode, but converting the whole value of the header
StatusCode_WholeValue(status) == PyInt(status)

\* int(status[:3])
StatusCode(status) == PyInt(SubSeq(status, 1, Min({3, Len(status)})))

\* the reason 'Okay' given with the default status 200
OKAY == <<"O", "k", "a", "y">>

STATUS_KEY == <<"s", "t", "a", "t", "u", "s">>

\* the status lines a backend may write first: none, or the text with the code
\* and the reason phrase it states
StatusLines ==
  {[text |-> <<>>,
     code |-> 0, reason |-> <<>>],
   [text |-> <<"H", "T", "T", "P", "/", "1", ".", "1", " ", "2", "0", "0", " ", "O",
                "K", "\r", "\n">>,
     code |-> 200, reason |-> <<"O", "K">>],
   [text |-> <<"H", "T", "T", "P", "/", "1", ".", "1", " ", "4", "0", "4", " ", "N",
                "o", "t", " ", "F", "o", "u", "n", "d", "\r", "\n">>,
     code |-> 404, reason |-> <<"N", "o", "t", " ", "F", "o", "u", "n", "d">>],
   [text |-> <<"H", "T", "T", "P", "/", "1", ".", "1", " ", "9", "9", " ", "x", "\r",
                "\n">>,
     code |-> 99, reason |-> <<"x">>]}

\* the Status headers a backend may write: none, or the text, whether its
\* value starts with a 3-digit code, and the code and reason phrase it states
StatusHeaders ==
  {[text |-> <<>>,
     present |-> FALSE, digits3 |-> FALSE, code |-> 0, reason |-> <<>>],
   [text |-> <<"S", "t", "a", "t", "u", "s", ":", " ", "4", "0", "4", " ", "N", "o",
                "t", " ", "F", "o", "u", "n", "d", "\r", "\n">>,
     present |-> TRUE, digits3 |-> TRUE, code |-> 404, reason |-> <<"N", "o", "t", " ", "F", "o", "u", "n", "d">>],
   [text |-> <<"S", "T", "A", "T", "U", "S", ":", " ", "5", "0", "0", " ", "O", "o",
                "p", "s", "\r", "\n">>,
     present |-> TRUE, digits3 |-> TRUE, code |-> 500, reason |-> <<"O", "o", "p", "s">>],
   [text |-> <<"s", "T", "a", "T", "u", "S", ":", " ", "2", "0", "0", " ", "O", "K",
                "\r", "\n">>,
     present |-> TRUE, digits3 |-> TRUE, code |-> 200, reason |-> <<"O", "K">>],
   [text |-> <<"S", "t", "a", "t", "u", "s", ":", "\r", "\n">>,
     present |-> TRUE, digits3 |-> FALSE, code |-> 0, reason |-> <<>>],
   [text |-> <<"S", "t", "a", "t", "u", "s", ":", " ", "4", "\r", "\n">>,
     present |-> TRUE, digits3 |-> FALSE, code |-> 0, reason |-> <<>>],
   [text |-> <<"S", "t", "a", "t", "u", "s", ":", " ", "4", "0", "\r", "\n">>,
     present |-> TRUE, digits3 |-> FALSE, code |-> 0, reason |-> <<>>],
   [text |-> <<"S", "t", "a", "t", "u", "s", ":", " ", "+", "4", "0", "\r", "\n">>,
     present |-> TRUE, digits3 |-> FALSE, code |-> 0, reason |-> <<>>],
   [text |-> <<"S", "t", "a", "t", "u", "s", ":", " ", "a", "b", "c", "\r", "\n">>,
     present |-> TRUE, digits3 |-> FALSE, code |-> 0, reason |-> <<>>],
   [text |-> <<"S", "t", "a", "t", "u", "s", ":", " ", "4", "x", "4", " ", "n", "o",
                "\r", "\n">>,
     present |-> TRUE, digits3 |-> FALSE, code |-> 0, reason |-> <<>>]}

\* another header a backend may write
ExtraHeaders == {<<>>, <<"X", "-", "T", "e", "s", "t", ":", " ", "y", "e", "p", "\r", "\n">>}

CRLF == <<"\r", "\n">>

Bodies == {<<>>, <<"b", "o", "d", "y">>}

\* what a backend writes: status line, headers, blank line, body
Outputs ==
  [line : StatusLines, header : StatusHeaders, extra : ExtraHeaders, body : Bodies]

\* the raw output of the backend, as build_response is handed it
Raw(d) == d.line.text \o d.header.text \o d.extra \o CRLF \o d.body

\* CGIResponse(raw_response).begin(): the status line, the headers and the
\* rest, which is the body; HTTPException (ok FALSE) for a bad status line or
\* an unknown protocol version
Begin(message) ==
  Call(LAMBDA statusLine :
         [ok |-> statusLine.ok /\ VersionKnown(statusLine.version),
          status |-> statusLine.status, reason |-> statusLine.reason,
          headers |-> ParseHeaders(HeaderLines(From(message, Len(ReadLine(message))))),
          body |-> AfterHeaders(From(message, Len(ReadLine(message))))],
       ReadStatus(ReadLine(message)))

\* the rest of build_response, after http_response.begin(): the exception, or
\* the Response with its status_code, reason, headers and body
Built(parsed, http_response) ==
  LET status == Lookup(http_response.headers, STATUS_KEY)
      truthy == status.found /\ status.value # <<>>
  IN  IF ~http_response.ok
        THEN [outcome |-> "ConnectionError", cause |-> "HTTPException",
              is_parsed_mode |-> parsed, status |-> [found |-> FALSE, value |-> <<>>],
              headers |-> <<>>, status_code |-> 0, reason |-> <<>>, body |-> <<>>]
      ELSE IF parsed /\ truthy /\ ~StatusCode(status.value).ok
        THEN [outcome |-> "ConnectionError: Could not parse status header",
              cause |-> "ValueError",
              is_parsed_mode |-> parsed, status |-> status,
              headers |-> http_response.headers, status_code |-> 0, reason |-> <<>>,
              body |-> <<>>]
      ELSE [outcome |-> "Response", cause |-> "",
            is_parsed_mode |-> parsed, status |-> status,
            headers |-> http_response.headers,
            status_code |-> IF ~parsed THEN http_response.status
                            ELSE IF truthy THEN StatusCode(status.value).value
                            ELSE 200,
            reason |-> IF ~parsed THEN http_response.reason
                       ELSE IF truthy THEN From(status.value, 4)
                       ELSE OKAY,
            body |-> http_response.body]

\* build_response(request, raw_response): without b'HTTP/' at its start the
\* output gets the placeholder status line; then begin() and the rest
BuildResponse(raw_response) ==
  Call(LAMBDA parsed :
         Call(LAMBDA http_response : Built(parsed, http_response),
              Begin(IF parsed THEN PLACEHOLDER \o raw_response ELSE raw_response)),
       is_parsed_mode(raw_response))

\* the frame of a build_response call on the output d of a backend
CgiFrame(d) ==
  [pc |-> "raw", written |-> d, raw_response |-> Raw(d),
   result |-> [outcome |-> ""]]

InitParse ==
  /\ requests = <<None>>
  /\ base = 0
  /\ socket = None
  /\ nconn = 0
  /\ writers = {}
  /\ nexch = 0
  /\ call = [c \in Callers |-> IdleFrame]
  /\ healthy = TRUE
  /\ stream = <<>>
  /\ reader = None
  /\ codec = None
  /\ cgi \in {CgiFrame(d) : d \in Outputs}

\* build_response returns the Response
BuildResponseReturns ==
  /\ cgi.pc = "raw"
  /\ BuildResponse(cgi.raw_response).outcome = "Response"
  /\ cgi' = [cgi EXCEPT !.pc = "done", !.result = BuildResponse(cgi.raw_response)]
  /\ UNCHANGED <<exchangeVars, stream, reader, codec>>

\* build_response raises ConnectionError
BuildResponseRaises ==
  /\ cgi.pc = "raw"
  /\ BuildResponse(cgi.raw_response).outcome # "Response"
  /\ cgi' = [cgi EXCEPT !.pc = "done", !.result = BuildResponse(cgi.raw_response)]
  /\ UNCHANGED <<exchangeVars, stream, reader, codec>>

NextParse ==
  \/ BuildResponseReturns
  \/ BuildResponseRaises

SpecParse == InitParse /\ [][NextParse]_vars

\* -------------------------------------------------- await_response, by step
\* Connection.close(): the socket, if any, is closed and set to None
Closed(sock) == None

\* record.content: the bytes of a record the loop of c reads, named by the
\* exchange the backend wrote them for, by the record's type and, for a Stdout
\* record, by its place among the Stdout records the loop has read for its ID
Payload(c, type, origin) ==
  [o |-> origin, t |-> type,
   n |-> IF type = RecordType.stdout THEN Len(call[c].stdout) + 1 ELSE 0]

\* as Applied, but an End-Request record sets success whatever the state is
Applied_EndOverrides(req, type, payload) ==
  IF type = RecordType.stdout
    THEN [req EXCEPT !.content = Append(@, payload)]
  ELSE IF type = RecordType.stderr
    THEN [req EXCEPT !.state = State.error, !.content = Append(@, payload)]
  ELSE IF type = RecordType.end
    THEN [req EXCEPT !.state = State.success]
  ELSE req

\* as Applied, but Stdout content is dropped once End-Request has set success
Applied_UntilEnd(req, type, payload) ==
  IF type = RecordType.stdout
    THEN [req EXCEPT !.content = IF req.state = State.success THEN @
                                  ELSE Append(@, payload)]
  ELSE IF type = RecordType.stderr
    THEN [req EXCEPT !.state = State.error, !.content = Append(@, payload)]
  ELSE IF type = RecordType.end
    THEN [req EXCEPT !.state = IF @ # State.error THEN State.success ELSE @]
  ELSE req

\* one pass of the loop over a record read from the stream
Applied(req, type, payload) ==
  IF type = RecordType.stdout
    THEN [req EXCEPT !.content = Append(@, payload)]
  ELSE IF type = RecordType.stderr
    THEN [req EXCEPT !.state = State.error, !.content = Append(@, payload)]
  ELSE IF type = RecordType.end
    THEN [req EXCEPT !.state = IF @ # State.error THEN State.success ELSE @]
  ELSE req

\* as Matches, but without the comparison of the request IDs
Matches_Any(c, request_id) == TRUE

\* the record is for this exchange: req_id == record.header.request_id
Matches(c, request_id) == call[c].req_id = request_id

\* the loop touches the slot: self.requests[req_id].content or .state
Touches(c, type, request_id) ==
  /\ Matches(c, request_id)
  /\ type \in {RecordType.stdout, RecordType.stderr, RecordType.end}

\* Record.read_from_stream returns a record; the loop handles it and goes on
\* (with the slot None, which takes a second caller that held the same ID and
\* cleared it, touching the slot raises AttributeError)
RecvRecord(c, type, request_id, origin) ==
  /\ call[c].pc = "await"
  /\ socket # None
  /\ call[c].nread < MaxRecords
  /\ origin \in writers
  /\ IF Touches(c, type, request_id) /\ Slot(requests, call[c].req_id) = None
       THEN /\ call' = Raise(c, "slot is None", "AttributeError")
            /\ UNCHANGED <<requests, healthy>>
       ELSE /\ requests' =
                 IF Matches(c, request_id)
                   THEN SetSlot(requests, call[c].req_id,
                                Applied(Slot(requests, call[c].req_id), type,
                                        Payload(c, type, origin)))
                   ELSE requests
            /\ call' = [call EXCEPT
                 ![c].nread = @ + 1,
                 ![c].ignored = IF request_id = call[c].req_id THEN @ ELSE @ + 1,
                 ![c].sawStderr = @ \/ (request_id = call[c].req_id
                                        /\ type = RecordType.stderr),
                 ![c].sawEnd = @ \/ (request_id = call[c].req_id /\ type = RecordType.end),
                 ![c].endAfterStderr = @ \/ (request_id = call[c].req_id
                                             /\ type = RecordType.end /\ call[c].sawStderr),
                 ![c].applied = IF Matches(c, request_id) THEN @ \cup {origin} ELSE @,
                 ![c].stdout = IF request_id = call[c].req_id /\ type = RecordType.stdout
                                 THEN Append(@, Payload(c, type, origin)) ELSE @]
            /\ healthy' = (healthy /\ FullySent(c) /\ request_id = call[c].req_id
                             /\ origin = call[c].exch /\ ~call[c].sawEnd
                             /\ type \in {RecordType.stdout, RecordType.end})
  /\ UNCHANGED <<base, socket, nconn, writers, nexch, codecVars>>

\* the bytes that response.content holds after a successful exchange, put
\* together from the Stdout records: nothing, an output that build_response
\* parses, one whose status line http.client rejects, or one whose only
\* header line has no colon
ContentText ==
  [empty |-> <<>>,
   parsable |-> Raw(CHOOSE d \in Outputs :
                      /\ d.line.text = <<>> /\ d.header.code = 404
                      /\ d.extra = <<>> /\ d.body # <<>>),
   malformed |-> Raw(CHOOSE d \in Outputs :
                       /\ d.line.code = 99 /\ ~d.header.present
                       /\ d.extra = <<>> /\ d.body = <<>>),
   garbled |-> <<"g", "a", "r", "b", "a", "g", "e", "\r", "\n">> \o CRLF
                 \o <<"b", "o", "d", "y">>]

\* build_response(request, response.content) for each of them
ContentBuilt == [text \in DOMAIN ContentText |-> BuildResponse(ContentText[text])]

\* as RecvEnd, but the response is built unless the state is error
RecvEnd_UnlessError(c, text) ==
  /\ call[c].pc = "await"
  /\ socket # None
  /\ socket' = Closed(socket)
  /\ requests' = SetSlot(requests, call[c].req_id, None)
  /\ LET response == Slot(requests, call[c].req_id)
     IN  /\ text = IF response # None /\ response.state # State.error
                      /\ response.content # <<>>
                     THEN "parsable" ELSE "empty"
         /\ call' =
              IF response = None THEN Raise(c, "response is None", "AttributeError")
              ELSE IF response.state # State.error
                THEN [call EXCEPT ![c].pc = "done", ![c].outcome = "Response",
                                  ![c].response = response.content]
              ELSE Raise(c, "state is not success", "ConnectionError: Invalid response")
  /\ healthy' = (healthy /\ call[c].sawEnd)
  /\ UNCHANGED <<base, nconn, writers, nexch, codecVars>>

\* Record.read_from_stream returns None (the stream is at its end): the loop
\* ends, the connection is closed, the slot is cleared, and execute_send
\* raises ConnectionError('Invalid response') or hands the content, which
\* spells out text, to build_response, which returns the Response or raises
RecvEnd(c, text) ==
  /\ call[c].pc = "await"
  /\ socket # None
  /\ socket' = Closed(socket)
  /\ requests' = SetSlot(requests, call[c].req_id, None)
  /\ LET response == Slot(requests, call[c].req_id)
         built == response # None /\ response.state = State.success
     IN  /\ IF built /\ response.content # <<>>
              THEN text \in {"parsable", "malformed", "garbled"}
              ELSE text = "empty"
         /\ call' =
              IF response = None THEN Raise(c, "response is None", "AttributeError")
              ELSE IF response.state # State.success
                THEN Raise(c, "state is not success", "ConnectionError: Invalid response")
              ELSE IF ContentBuilt[text].outcome = "Response"
                THEN [call EXCEPT ![c].pc = "done", ![c].outcome = "Response",
                                  ![c].response = response.content]
              ELSE Raise(c, ContentBuilt[text].cause, ContentBuilt[text].outcome)
         /\ healthy' = (healthy /\ call[c].sawEnd
                          /\ (built => ContentBuilt[text].outcome = "Response"))
  /\ UNCHANGED <<base, nconn, writers, nexch, codecVars>>

\* Connection.read: the exception raised for an exception of socket.recv
\* (except TimeoutError comes first, then except SocketError)
ReadError(cause) ==
  IF cause = "recv: TimeoutError" THEN "ReadTimeout"
  ELSE "ConnectionError: Unexpected socket error"

\* as ReadRaise, but the connection is not closed
ReadRaise_NoClose(c, cause) ==
  /\ call[c].pc = "await"
  /\ socket # None
  /\ call' = Raise(c, cause, ReadError(cause))
  /\ healthy' = (healthy /\ cause = "recv: TimeoutError" /\ ~FullySent(c))
  /\ UNCHANGED <<requests, base, socket, nconn, writers, nexch, codecVars>>

\* Connection.read: socket.recv raises; the connection is closed and the
\* exception goes up through read_from_stream, await_response and execute_send
ReadRaise(c, cause) ==
  /\ call[c].pc = "await"
  /\ socket # None
  /\ socket' = Closed(socket)
  /\ call' = Raise(c, cause, ReadError(cause))
  /\ healthy' = (healthy /\ cause = "recv: TimeoutError" /\ ~FullySent(c))
  /\ UNCHANGED <<requests, base, nconn, writers, nexch, codecVars>>

\* ----------------------------------------------------------- specifications
\* one caller: the exchanges on the client follow one another
Exchange(c) ==
  \/ \E plen \in ParamLens, slen \in StdinLens : StartExchange(c, plen, slen)
  \/ OpenReuse(c)
  \/ OpenConnect(c)
  \/ OpenFail(c)
  \/ AcquireId(c)
  \/ Assemble(c)
  \/ AssembleRaise(c)
  \/ \E n \in SendCounts(call[c].packet) : Send(c, n)
  \/ SendRaise(c)
  \/ \E type \in RecvTypes, request_id \in RecvIds, origin \in 1..MaxExchanges :
       RecvRecord(c, type, request_id, origin)
  \/ \E text \in DOMAIN ContentText : RecvEnd(c, text)
  \/ \E cause \in RecvErrors : ReadRaise(c, cause)

Next == Exchange(1)

Spec == Init /\ [][Next]_vars

\* --------------------------------------- two callers on one adapter at once
\* self.connection.socket.send: the other caller has closed the connection,
\* the socket is None
SendOnClosed(c) ==
  /\ call[c].pc = "send"
  /\ socket = None
  /\ call' = Raise(c, "socket is None", "AttributeError")
  /\ UNCHANGED <<requests, base, socket, nconn, writers, nexch, healthy, codecVars>>

\* Connection.read: self.socket.recv with the socket None; AttributeError is
\* not caught by the except clauses of read
ReadOnClosed(c) ==
  /\ call[c].pc = "await"
  /\ socket = None
  /\ call' = Raise(c, "socket is None", "AttributeError")
  /\ UNCHANGED <<requests, base, socket, nconn, writers, nexch, healthy, codecVars>>

ConcurrentExchange(c) ==
  \/ \E plen \in {24}, slen \in {5} : StartExchange(c, plen, slen)
  \/ OpenReuse(c)
  \/ OpenConnect(c)
  \/ AcquireId(c)
  \/ Assemble(c)
  \/ Send(c, PacketSize(call[c].packet))
  \/ SendOnClosed(c)
  \/ \E type \in {RecordType.stdout, RecordType.end}, origin \in 1..MaxExchanges :
       RecvRecord(c, type, 1, origin)
  \/ \E text \in DOMAIN ContentText : RecvEnd(c, text)
  \/ ReadRaise(c, "recv: SocketError")
  \/ ReadOnClosed(c)

NextConcurrent == \E c \in Callers : ConcurrentExchange(c)

SpecConcurrent == Init /\ [][NextConcurrent]_vars

\* ------------------------------------------- an adapter after a long service
\* the adapter after MaxUInt16 - 1 exchanges that each ended in a read timeout
\* before any record came: slots 1..65534 still hold their ActiveRequest
InitLongRun ==
  /\ requests = <<None>>
  /\ base = MaxUInt16 - 1
  /\ socket = None
  /\ nconn = 0
  /\ writers = {}
  /\ nexch = 0
  /\ call = [c \in Callers |-> IdleFrame]
  /\ healthy = FALSE
  /\ CodecIdle

LongRunExchange(c) ==
  \/ \E plen \in {24}, slen \in {0, 5} : StartExchange(c, plen, slen)
  \/ OpenReuse(c)
  \/ OpenConnect(c)
  \/ OpenFail(c)
  \/ AcquireId(c)
  \/ Assemble(c)
  \/ AssembleRaise(c)
  \/ Send(c, PacketSize(call[c].packet))
  \/ SendRaise(c)
  \/ \E type \in {RecordType.stdout, RecordType.end}, request_id \in {1, MaxUInt16},
        origin \in 1..MaxExchanges :
       RecvRecord(c, type, request_id, origin)
  \/ \E text \in DOMAIN ContentText : RecvEnd(c, text)
  \/ \E cause \in RecvErrors : ReadRaise(c, cause)

NextLongRun == LongRunExchange(1)

SpecLongRun == InitLongRun /\ [][NextLongRun]_vars

\* ------------------------------------------------------------ record codec
\* struct 'H' with '>': an unsigned 16-bit field as two bytes, big-endian
PackUInt16(n) == <<n \div 256, n % 256>>

UnpackUInt16(b) == b[1] * 256 + b[2]

\* as HeaderEncode, with the 16-bit fields packed little-endian ("<BBHHBx")
HeaderEncode_LittleEndian(h) ==
  <<h.version, h.type, h.request_id % 256, h.request_id \div 256,
    h.content_length % 256, h.content_length \div 256, h.padding_length, 0>>

\* RecordHeader.encode(): _HEADER_STRUCT.pack(version, type, request_id,
\* content_length, padding_length), the pad byte 'x' is written as zero
HeaderEncode(h) ==
  <<h.version, h.type>> \o PackUInt16(h.request_id) \o PackUInt16(h.content_length)
    \o <<h.padding_length, 0>>

\* _HEADER_STRUCT.unpack(data) raises struct.error unless len(data) is 8
HeaderDecodable(data) == Len(data) = HeaderSize

\* RecordHeader.decode(data): cls(*_HEADER_STRUCT.unpack(data)), the pad byte
\* is skipped
HeaderDecode(data) ==
  RecordHeader(data[1], data[2], UnpackUInt16(SubSeq(data, 3, 4)),
               UnpackUInt16(SubSeq(data, 5, 6)), data[7])

\* _UNSIGNED_LONG_STRUCT.pack(len | 0x80_00_00_00) for len < 2^31: four bytes,
\* big-endian, the top bit of the first byte set
PackLengthTopBit(len) ==
  <<128 + (len \div 16777216), (len \div 65536) % 256, (len \div 256) % 256, len % 256>>

\* as NameValueEncode, with the one-byte form taken for lengths up to 128
NameValueEncode_UpTo128(name, value) ==
  LET len_name == Len(name)
      len_value == Len(value)
      lengths == (IF len_name <= 128 THEN <<len_name>> ELSE PackLengthTopBit(len_name))
                 \o (IF len_value <= 128 THEN <<len_value>> ELSE PackLengthTopBit(len_value))
  IN  lengths \o name \o value

\* NameValue(name, value).encode()
NameValueEncode(name, value) ==
  LET len_name == Len(name)
      len_value == Len(value)
      lengths == (IF len_name < 128 THEN <<len_name>> ELSE PackLengthTopBit(len_name))
                 \o (IF len_value < 128 THEN <<len_value>> ELSE PackLengthTopBit(len_value))
  IN  lengths \o name \o value

\* execute_send: params += NameValue(name, value).encode() for each item of env
RECURSIVE ParamsEncode(_)
ParamsEncode(env) ==
  IF env = <<>> THEN <<>>
  ELSE NameValueEncode(Head(env).name, Head(env).value) \o ParamsEncode(Tail(env))

\* the header fields tried: in range, at the edges of the range, one beyond it
UInt8Samples == {0, 1, 255, 256}
UInt16Samples == {0, 1, 256, 65535, 65536}

Headers ==
  {RecordHeader(v, t, r, c, p) :
     v \in UInt8Samples, t \in UInt8Samples, r \in UInt16Samples,
     c \in UInt16Samples, p \in UInt8Samples}

\* the lengths of the names and values tried
PairLens == {0, 1, 127, 128, 300}

\* an ASCII byte string of len bytes, by the item of env it belongs to
AsciiBytes(len, item) == [i \in 1..len |-> 65 + ((i + item) % 26)]

\* the environments tried: one or two items, the names distinct (env is a dict)
Envs ==
  {<<[name |-> AsciiBytes(n, 1), value |-> AsciiBytes(v, 2)]>> :
     n \in PairLens, v \in PairLens}
  \cup
  {e \in {<<[name |-> AsciiBytes(n1, 1), value |-> AsciiBytes(v1, 2)],
            [name |-> AsciiBytes(n2, 3), value |-> AsciiBytes(v2, 4)]>> :
             n1 \in PairLens, v1 \in PairLens, n2 \in PairLens, v2 \in {0, 128}} :
     e[1].name # e[2].name}

\* a value to encode: a header, or the items of an environment
CodecFrame(op, input) ==
  [op |-> op, pc |-> "start", input |-> input, bytes |-> <<>>, output |-> None,
   outcome |-> ""]

InitCodec ==
  /\ requests = <<None>>
  /\ base = 0
  /\ socket = None
  /\ nconn = 0
  /\ writers = {}
  /\ nexch = 0
  /\ call = [c \in Callers |-> IdleFrame]
  /\ healthy = TRUE
  /\ stream = <<>>
  /\ reader = None
  /\ cgi = None
  /\ codec \in {CodecFrame("header", h) : h \in Headers}
               \cup {CodecFrame("params", e) : e \in Envs}

\* RecordHeader.encode() returns the 8 bytes
EncodeHeader ==
  /\ codec.op = "header" /\ codec.pc = "start"
  /\ HeaderEncodable(codec.input)
  /\ codec' = [codec EXCEPT !.pc = "encoded", !.bytes = HeaderEncode(codec.input)]
  /\ UNCHANGED <<exchangeVars, stream, reader, cgi>>

\* RecordHeader.encode() raises struct.error: a field is out of its range
EncodeHeaderRaise ==
  /\ codec.op = "header" /\ codec.pc = "start"
  /\ ~HeaderEncodable(codec.input)
  /\ codec' = [codec EXCEPT !.pc = "raised", !.outcome = "struct.error"]
  /\ UNCHANGED <<exchangeVars, stream, reader, cgi>>

\* RecordHeader.decode(data) on the encoded bytes
DecodeHeader ==
  /\ codec.op = "header" /\ codec.pc = "encoded"
  /\ HeaderDecodable(codec.bytes)
  /\ codec' = [codec EXCEPT !.pc = "decoded", !.output = HeaderDecode(codec.bytes)]
  /\ UNCHANGED <<exchangeVars, stream, reader, cgi>>

\* the loop of execute_send over env.items()
EncodeParams ==
  /\ codec.op = "params" /\ codec.pc = "start"
  /\ codec' = [codec EXCEPT !.pc = "encoded", !.bytes = ParamsEncode(codec.input)]
  /\ UNCHANGED <<exchangeVars, stream, reader, cgi>>

NextCodec ==
  \/ EncodeHeader
  \/ EncodeHeaderRaise
  \/ DecodeHeader
  \/ EncodeParams

SpecCodec == InitCodec /\ [][NextCodec]_vars

\* ------------------------------------------- Record.read_from_stream, by read
\* content_length and padding_length of the records the backend writes
ContentLens == {0, 2}
PaddingLens == {0, 2}

\* the content of the k-th record the backend writes: len bytes, none of them 0
ContentBytes(k, len) == [i \in 1..len |-> 16 * k + i]

\* the k-th record the backend writes
BackendRecord(k, len, pad) ==
  [header |-> RecordHeader(FASTCGI_VERSION, RecordType.stdout, 1, len, pad),
   content |-> ContentBytes(k, len)]

\* Record.encode(): b''.join((header.encode(), content, bytes(padding_length)))
RecordEncode(rec) ==
  HeaderEncode(rec.header) \o rec.content \o [i \in 1..rec.header.padding_length |-> 0]

\* the sequences of n records a backend may write
RECURSIVE BackendSeqs(_)
BackendSeqs(n) ==
  IF n = 0 THEN {<<>>}
  ELSE {Append(recs, BackendRecord(n, len, pad)) :
          recs \in BackendSeqs(n - 1), len \in ContentLens, pad \in PaddingLens}

\* the bytes of the records, one after the other
RECURSIVE WireBytes(_)
WireBytes(recs) ==
  IF recs = <<>> THEN <<>> ELSE RecordEncode(Head(recs)) \o WireBytes(Tail(recs))

\* the frame of the receive loop: pc is the read that comes next; header,
\* content and bytes_read are the locals of read_from_stream; records are the
\* records returned so far.  History: sent (the records written), whole (the
\* stream held all their bytes), got (bytes the last header read returned),
\* taken (bytes the call under way has consumed), consumed (bytes each
\* finished call consumed), broke (the content loop ended on an empty read)
ReaderFrame(sent, whole) ==
  [pc |-> "header", header |-> None, content |-> <<>>, bytes_read |-> 0,
   records |-> <<>>, outcome |-> "", sent |-> sent, whole |-> whole, got |-> 0,
   taken |-> 0, consumed |-> <<>>, broke |-> FALSE]

\* the stream holds the bytes of one or more records, or the first bytes of
\* them (the backend has closed the connection early)
InitStream ==
  /\ requests = <<None>>
  /\ base = 0
  /\ socket = None
  /\ nconn = 0
  /\ writers = {}
  /\ nexch = 0
  /\ call = [c \in Callers |-> IdleFrame]
  /\ healthy = TRUE
  /\ codec = None
  /\ cgi = None
  /\ \E n \in 1..MaxStreamRecords :
       \E sent \in BackendSeqs(n) :
         \E cut \in 0..Len(WireBytes(sent)) :
           /\ stream = SubSeq(WireBytes(sent), 1, cut)
           /\ reader = ReaderFrame(sent, cut = Len(WireBytes(sent)))

\* socket.recv(size): the numbers of bytes it may return; none when size is 0
\* or the peer has closed and nothing is left, else 1 up to size
ReadSizes(size) ==
  IF size = 0 \/ stream = <<>> THEN {0} ELSE 1..Min({size, Len(stream)})

\* the bytes a read of k bytes returns, and the stream after it
Take(k) == SubSeq(stream, 1, k)

Rest(k) == SubSeq(stream, k + 1, Len(stream))

\* header = stream.read(8) returns b'': read_from_stream returns None and the
\* receive loop ends
ReadHeaderNone ==
  /\ reader.pc = "header"
  /\ 0 \in ReadSizes(HeaderSize)
  /\ reader' = [reader EXCEPT !.pc = "closed", !.got = 0, !.outcome = "None"]
  /\ UNCHANGED <<exchangeVars, stream, codec, cgi>>

\* header = stream.read(8) returns 1 to 7 bytes: RecordHeader.decode raises
\* struct.error, which nothing in read_from_stream, await_response or
\* execute_send catches
ReadHeaderShort(k) ==
  /\ reader.pc = "header"
  /\ k \in ReadSizes(HeaderSize) /\ k > 0
  /\ ~HeaderDecodable(Take(k))
  /\ stream' = Rest(k)
  /\ reader' = [reader EXCEPT !.pc = "raised", !.got = k, !.outcome = "struct.error"]
  /\ UNCHANGED <<exchangeVars, codec, cgi>>

\* header = stream.read(8) returns 8 bytes, which are decoded
ReadHeader(k) ==
  /\ reader.pc = "header"
  /\ k \in ReadSizes(HeaderSize) /\ k > 0
  /\ HeaderDecodable(Take(k))
  /\ stream' = Rest(k)
  /\ LET header == HeaderDecode(Take(k))
     IN  reader' = [reader EXCEPT
           !.pc = IF 0 < header.content_length THEN "content" ELSE "padding",
           !.header = header, !.content = <<>>, !.bytes_read = 0,
           !.got = k, !.taken = k, !.broke = FALSE]
  /\ UNCHANGED <<exchangeVars, codec, cgi>>

\* as ReadContent, but an empty read inside the content raises
ReadContent_RaisesOnEmpty(k) ==
  /\ reader.pc = "content"
  /\ k \in ReadSizes(reader.header.content_length - reader.bytes_read)
  /\ stream' = Rest(k)
  /\ reader' =
       IF k = 0 THEN [reader EXCEPT !.pc = "raised", !.outcome = "ConnectionError"]
       ELSE [reader EXCEPT
               !.pc = IF reader.bytes_read + k < reader.header.content_length
                        THEN "content" ELSE "padding",
               !.bytes_read = @ + k, !.content = @ \o Take(k), !.taken = @ + k]
  /\ UNCHANGED <<exchangeVars, codec, cgi>>

\* one pass of the content loop: buffer = stream.read(content_length -
\* bytes_read); an empty buffer ends the loop, else it is added to content
ReadContent(k) ==
  /\ reader.pc = "content"
  /\ k \in ReadSizes(reader.header.content_length - reader.bytes_read)
  /\ stream' = Rest(k)
  /\ reader' =
       IF k = 0 THEN [reader EXCEPT !.pc = "padding", !.broke = TRUE]
       ELSE [reader EXCEPT
               !.pc = IF reader.bytes_read + k < reader.header.content_length
                        THEN "content" ELSE "padding",
               !.bytes_read = @ + k, !.content = @ \o Take(k), !.taken = @ + k]
  /\ UNCHANGED <<exchangeVars, codec, cgi>>

\* stream.read(padding_length), once, whatever it returns, and the record is
\* returned to the receive loop, which reads the next one
ReadPadding(k) ==
  /\ reader.pc = "padding"
  /\ k \in ReadSizes(reader.header.padding_length)
  /\ stream' = Rest(k)
  /\ reader' = [reader EXCEPT
       !.pc = "header",
       !.records = Append(@, [header |-> reader.header, content |-> reader.content]),
       !.consumed = Append(@, reader.taken + k), !.taken = 0]
  /\ UNCHANGED <<exchangeVars, codec, cgi>>

NextStream ==
  \/ ReadHeaderNone
  \/ \E k \in 1..HeaderSize : ReadHeaderShort(k)
  \/ \E k \in 1..HeaderSize : ReadHeader(k)
  \/ \E k \in 0..Max(ContentLens) : ReadContent(k)
  \/ \E k \in 0..Max(PaddingLens) : ReadPadding(k)

SpecStream == InitStream /\ [][NextStream]_vars

\* ------------------------------------------- CGIAdapter.send and execute_send
\* the child wrote nothing to stdout
Nothing == [nothing |-> TRUE]

\* an output whose only header line has no colon
Garbled ==
  [line |-> CHOOSE l \in StatusLines : l.text = <<>>,
   header |-> CHOOSE h \in StatusHeaders : ~h.present,
   extra |-> <<"g", "a", "r", "b", "a", "g", "e", "\r", "\n">>,
   body |-> <<"b", "o", "d", "y">>]

\* what the child may have written to stdout when it ends: nothing, or an
\* output with a status line or a Status header, well-formed or not
Written ==
  {Nothing, Garbled}
    \cup {d \in Outputs :
            /\ d.extra = <<>> /\ d.body # <<>>
            /\ \/ d.line.text = <<>> /\ d.header.code \in {404, 500}
               \/ d.line.text = <<>> /\ d.header.present /\ ~d.header.digits3
               \/ d.line.code \in {404, 99} /\ ~d.header.present}

\* the bytes captured from the child's stdout
Stdout(written) == IF written = Nothing THEN <<>> ELSE Raw(written)

\* the bytes captured from the child's stderr
Stderrs == {<<>>, <<"o", "o", "p", "s">>}

\* how long the child runs before it exits by itself, in seconds
Durations == {1, 3}

ExitCodes == {0, 1}

\* the child processes a command may turn out to be
Scripts ==
  [exit : ExitCodes, written : Written, stderr : Stderrs, duration : Durations]

NoTimeout == [kind |-> "None"]

Seconds(n) == [kind |-> "float", value |-> n]

\* the timeout argument of send: None, a number, or a (connect, read) pair
Timeouts ==
  {NoTimeout, Seconds(2),
   [kind |-> "tuple", connect |-> Seconds(1), read |-> Seconds(4)],
   [kind |-> "tuple", connect |-> Seconds(4), read |-> Seconds(1)],
   [kind |-> "tuple", connect |-> Seconds(1), read |-> NoTimeout]}

\* as Deadline, but the connect value of the pair
Deadline_Connect(timeout) ==
  IF timeout.kind = "tuple" THEN timeout.connect ELSE timeout

\* send: if isinstance(timeout, tuple): timeout = timeout[1]
Deadline(timeout) ==
  IF timeout.kind = "tuple" THEN timeout.read ELSE timeout

\* subprocess.run(..., timeout=timeout): the child is still running when the
\* deadline comes
Expires(script, timeout) ==
  timeout.kind = "float" /\ script.duration > timeout.value

\* build_response on what each child wrote
StdoutBuilt == [written \in Written |-> BuildResponse(Stdout(written))]

\* the frame of a send call: the child of self.command and the call's result
SendFrame(script, timeout) ==
  [pc |-> "send", script |-> script, timeout |-> timeout, deadline |-> NoTimeout,
   child |-> "none",
   result |-> [outcome |-> "", cause |-> "", args |-> <<>>, response |-> None]]

\* the call returns the response
Returned(response) ==
  [outcome |-> "Response", cause |-> "", args |-> <<>>, response |-> response]

\* as ConnectionErrorFrom, but without the captured stderr
ConnectionErrorFrom_StdoutOnly(script) ==
  [outcome |-> "ConnectionError", cause |-> "CalledProcessError",
   args |-> <<Stdout(script.written)>>, response |-> None]

\* raise ConnectionError(e.stderr, e.stdout, request=request) from e
ConnectionErrorFrom(script) ==
  [outcome |-> "ConnectionError", cause |-> "CalledProcessError",
   args |-> <<script.stderr, Stdout(script.written)>>, response |-> None]

\* build_response raised: the ConnectionError it raises goes up
BuildRaised(built) ==
  [outcome |-> built.outcome, cause |-> built.cause, args |-> <<>>, response |-> None]

InitCgi ==
  /\ requests = <<None>>
  /\ base = 0
  /\ socket = None
  /\ nconn = 0
  /\ writers = {}
  /\ nexch = 0
  /\ call = [c \in Callers |-> IdleFrame]
  /\ healthy = TRUE
  /\ stream = <<>>
  /\ reader = None
  /\ codec = None
  /\ cgi \in {SendFrame(script, timeout) : script \in Scripts, timeout \in Timeouts}

\* send: the timeout is reduced to one value, and execute_send starts the
\* child with subprocess.run, which waits for it
RunChild ==
  /\ cgi.pc = "send"
  /\ cgi' = [cgi EXCEPT !.pc = "run", !.deadline = Deadline(cgi.timeout),
                        !.child = "running"]
  /\ UNCHANGED <<exchangeVars, stream, reader, codec>>

\* the child exits with code 0 in time: return self.build_response(request,
\* result.stdout), which returns the Response or raises ConnectionError
RunReturns ==
  /\ cgi.pc = "run"
  /\ ~Expires(cgi.script, cgi.deadline)
  /\ cgi.script.exit = 0
  /\ LET built == StdoutBuilt[cgi.script.written]
     IN  cgi' = [cgi EXCEPT !.pc = "done", !.child = "exited",
                            !.result = IF built.outcome = "Response"
                                         THEN Returned(built)
                                         ELSE BuildRaised(built)]
  /\ UNCHANGED <<exchangeVars, stream, reader, codec>>

\* as RunCalledProcessError, but stdout is never looked at
RunCalledProcessError_Raises ==
  /\ cgi.pc = "run"
  /\ ~Expires(cgi.script, cgi.deadline)
  /\ cgi.script.exit # 0
  /\ cgi' = [cgi EXCEPT !.pc = "done", !.child = "exited",
                        !.result = ConnectionErrorFrom(cgi.script)]
  /\ UNCHANGED <<exchangeVars, stream, reader, codec>>

\* the child exits with another code in time (check=True: CalledProcessError):
\* with output on stdout the response is built from it and returned, and an
\* exception of build_response is dropped; else ConnectionError is raised
RunCalledProcessError ==
  /\ cgi.pc = "run"
  /\ ~Expires(cgi.script, cgi.deadline)
  /\ cgi.script.exit # 0
  /\ LET built == StdoutBuilt[cgi.script.written]
     IN  cgi' = [cgi EXCEPT !.pc = "done", !.child = "exited",
                            !.result = IF Stdout(cgi.script.written) # <<>>
                                            /\ built.outcome = "Response"
                                         THEN Returned(built)
                                         ELSE ConnectionErrorFrom(cgi.script)]
  /\ UNCHANGED <<exchangeVars, stream, reader, codec>>

\* the child is still running at the deadline: subprocess.run kills it, waits
\* for it and raises TimeoutExpired, for which execute_send raises ReadTimeout
RunTimeoutExpired ==
  /\ cgi.pc = "run"
  /\ Expires(cgi.script, cgi.deadline)
  /\ cgi' = [cgi EXCEPT !.pc = "done", !.child = "killed",
                        !.result = [outcome |-> "ReadTimeout", cause |-> "TimeoutExpired",
                                    args |-> <<>>, response |-> None]]
  /\ UNCHANGED <<exchangeVars, stream, reader, codec>>

NextCgi ==
  \/ RunChild
  \/ RunReturns
  \/ RunCalledProcessError
  \/ RunTimeoutExpired

SpecCgi == InitCgi /\ [][NextCgi]_vars

\* ------------------------------- a session with a CGI and a FastCGI adapter
\* the session has a CGIAdapter and a FastCGIAdapter mounted; the program
\* sends requests through either
InitAdapters ==
  /\ requests = <<None>>
  /\ base = 0
  /\ socket = None
  /\ nconn = 0
  /\ writers = {}
  /\ nexch = 0
  /\ call = [c \in Callers |-> IdleFrame]
  /\ healthy = TRUE
  /\ stream = <<>>
  /\ reader = None
  /\ codec = None
  /\ cgi \in {SendFrame(script, NoTimeout) :
                script \in {s \in Scripts : s.stderr # <<>> /\ s.duration = 1}}

AdapterExchange(c) ==
  \/ StartExchange(c, 24, 0)
  \/ OpenConnect(c)
  \/ AcquireId(c)
  \/ Assemble(c)
  \/ Send(c, PacketSize(call[c].packet))
  \/ \E type \in {RecordType.stdout, RecordType.end} :
       RecvRecord(c, type, 1, call[c].exch)
  \/ \E text \in DOMAIN ContentText : RecvEnd(c, text)

NextAdapters ==
  \/ RunChild
  \/ RunReturns
  \/ RunCalledProcessError
  \/ AdapterExchange(1)

SpecAdapters == InitAdapters /\ [][NextAdapters]_vars

\* ------------------------------------ an exchange, its timeout and its backend
\* self.connection.socket.settimeout(timeout): with a number of seconds recv
\* raises TimeoutError when no byte comes in that time, with None it blocks
\* until a byte comes or the peer closes
TimesOut_Never(timeout) == FALSE

TimesOut(timeout) == timeout.kind = "float"

\* what the backend does once it has written its records: it closes the
\* connection, or it keeps it open and stays silent
Backends == {"closes", "keeps open"}

\* the timeout send passes to execute_send, and the backend of the run
TimedFrame(timeout, backend) == [timeout |-> Deadline(timeout), backend |-> backend]

InitTimed ==
  /\ requests = <<None>>
  /\ base = 0
  /\ socket = None
  /\ nconn = 0
  /\ writers = {}
  /\ nexch = 0
  /\ call = [c \in Callers |-> IdleFrame]
  /\ healthy = TRUE
  /\ stream = <<>>
  /\ reader = None
  /\ codec = None
  /\ cgi \in {TimedFrame(timeout, backend) :
                timeout \in Timeouts, backend \in Backends}

\* recv returns b'' for the header: the backend has closed the connection
RecvClosed(c) ==
  /\ cgi.backend = "closes"
  /\ \E text \in DOMAIN ContentText : RecvEnd(c, text)

\* recv raises TimeoutError: the backend was silent for the socket's timeout
RecvTimeout(c) ==
  /\ TimesOut(cgi.timeout)
  /\ ReadRaise(c, "recv: TimeoutError")

\* the steps of execute_send that wait for nothing but the local system:
\* connect returns or fails, the ID is taken, the packet is built and sent
Proceed(c) ==
  \/ OpenReuse(c)
  \/ OpenConnect(c)
  \/ OpenFail(c)
  \/ AcquireId(c)
  \/ Assemble(c)
  \/ \E n \in SendCounts(call[c].packet) : Send(c, n)
  \/ SendRaise(c)

TimedExchange(c) ==
  \/ \E slen \in {0, 5} : StartExchange(c, 24, slen)
  \/ Proceed(c)
  \/ \E type \in {RecordType.stdout, RecordType.end}, request_id \in {0, 1} :
       RecvRecord(c, type, request_id, call[c].exch)
  \/ RecvClosed(c)
  \/ RecvTimeout(c)
  \/ ReadRaise(c, "recv: SocketError")

NextTimed == TimedExchange(1)

\* a step of execute_send that can be taken is taken; a closed connection is
\* noticed by the next read, and so is the silence of the backend by a read
\* under a timeout
SpecTimed ==
  /\ InitTimed
  /\ [][NextTimed]_vars
  /\ WF_vars(Proceed(1))
  /\ WF_vars(RecvClosed(1))
  /\ WF_vars(RecvTimeout(1))

\* ----------------------------------------- CGIAdapter.build_cgi_env and send
\* a str value of the environment, character by character
Str(chars) == [str |-> chars]

HTTP_HOST == <<"H", "T", "T", "P", "_", "H", "O", "S", "T">>
PATH_INFO == <<"P", "A", "T", "H", "_", "I", "N", "F", "O">>
QUERY_STRING == <<"Q", "U", "E", "R", "Y", "_", "S", "T", "R", "I", "N", "G">>
REMOTE_ADDR == <<"R", "E", "M", "O", "T", "E", "_", "A", "D", "D", "R">>
REMOTE_HOST == <<"R", "E", "M", "O", "T", "E", "_", "H", "O", "S", "T">>
REQUEST_METHOD == <<"R", "E", "Q", "U", "E", "S", "T", "_", "M", "E", "T", "H", "O", "D">>
SCRIPT_NAME == <<"S", "C", "R", "I", "P", "T", "_", "N", "A", "M", "E">>
SERVER_NAME == <<"S", "E", "R", "V", "E", "R", "_", "N", "A", "M", "E">>
SERVER_PROTOCOL == <<"S", "E", "R", "V", "E", "R", "_", "P", "R", "O", "T", "O", "C", "O", "L">>
GATEWAY_INTERFACE == <<"G", "A", "T", "E", "W", "A", "Y", "_", "I", "N", "T", "E", "R", "F", "A", "C", "E">>
REDIRECT_STATUS == <<"R", "E", "D", "I", "R", "E", "C", "T", "_", "S", "T", "A", "T", "U", "S">>
REQUEST_URI == <<"R", "E", "Q", "U", "E", "S", "T", "_", "U", "R", "I">>
DOCUMENT_ROOT == <<"D", "O", "C", "U", "M", "E", "N", "T", "_", "R", "O", "O", "T">>
CONTEXT_DOCUMENT_ROOT == <<"C", "O", "N", "T", "E", "X", "T", "_", "D", "O", "C", "U", "M", "E", "N", "T", "_", "R", "O", "O", "T">>
SCRIPT_FILENAME == <<"S", "C", "R", "I", "P", "T", "_", "F", "I", "L", "E", "N", "A", "M", "E">>
CONTENT_LENGTH == <<"C", "O", "N", "T", "E", "N", "T", "_", "L", "E", "N", "G", "T", "H">>
CONTENT_TYPE == <<"C", "O", "N", "T", "E", "N", "T", "_", "T", "Y", "P", "E">>
HTTP_ACCEPT == <<"H", "T", "T", "P", "_", "A", "C", "C", "E", "P", "T">>
HTTP_X_TEST == <<"H", "T", "T", "P", "_", "X", "_", "T", "E", "S", "T">>
HTTP_CONTENT_TYPE == <<"H", "T", "T", "P", "_", "C", "O", "N", "T", "E", "N", "T", "_", "T", "Y", "P", "E">>

\* the classes, and for each its method resolution order, self.__class__.__mro__
MRO ==
  [CGIAdapter |-> <<"CGIAdapter", "BaseAdapter", "object">>,
   PHPAdapter |-> <<"PHPAdapter", "CGIAdapter", "BaseAdapter", "object">>,
   FastCGIAdapter |-> <<"FastCGIAdapter", "CGIAdapter", "BaseAdapter", "object">>,
   PHPFPMAdapter |-> <<"PHPFPMAdapter", "FastCGIAdapter", "PHPAdapter", "CGIAdapter",
                       "BaseAdapter", "object">>]

\* the classes that define _cgi_env_helper themselves
HasHelper == {"CGIAdapter", "PHPAdapter", "FastCGIAdapter"}

\* the URLs of a request as urlparse(request.url) gives them: the hostname is
\* None for a URL without a host, path and query are '' when absent
Urls ==
  {[hostname |-> Str(<<"e", "x", "a", "m", "p", "l", "e", ".", "c", "o", "m">>), path |-> <<"/", "a", ".", "p", "h", "p">>, query |-> <<"o", "n", "e", "=", "1">>],
   [hostname |-> Str(<<"e", "x", "a", "m", "p", "l", "e", ".", "c", "o", "m">>), path |-> <<"/">>, query |-> <<>>],
   [hostname |-> None, path |-> <<"/", "/", "l", "i", "b", "/">>, query |-> <<>>]}

\* the headers of a request, in the order of request.headers.items(), each
\* with the environment key that stands for its name
HeaderSets ==
  {<<>>,
   <<[name |-> <<"H", "o", "s", "t">>, value |-> Str(<<"o", "t", "h", "e", "r", ".", "t", "e", "s", "t">>), key |-> HTTP_HOST]>>,
   <<[name |-> <<"A", "c", "c", "e", "p", "t">>, value |-> Str(<<"a", "/", "b">>), key |-> HTTP_ACCEPT]>>,
   <<[name |-> <<"c", "o", "n", "t", "e", "n", "t", "-", "t", "y", "p", "e">>, value |-> Str(<<"a", "/", "b">>), key |-> HTTP_CONTENT_TYPE],
     [name |-> <<"x", "-", "t", "e", "s", "t">>, value |-> Str(<<"y", "e", "p">>), key |-> HTTP_X_TEST]>>,
   <<[name |-> <<"X", "-", "T", "e", "s", "t">>, value |-> Str(<<"y", "e", "p">>), key |-> HTTP_X_TEST],
     [name |-> <<"X", "_", "T", "e", "s", "t">>, value |-> Str(<<"n", "o", "p", "e">>), key |-> HTTP_X_TEST]>>}

\* the characters of a text body that take two bytes in UTF-8
TwoByteChars == {"U+00E9"}

\* the bodies of a request: None, bytes, or text; size is the number of bytes
\* the body has when it is sent
RequestBodies ==
  {[kind |-> "None", chars |-> <<>>, size |-> 0],
   [kind |-> "bytes", chars |-> <<"E", "C", "H", "O", "!">>, size |-> 5],
   [kind |-> "str", chars |-> <<"U+00E9", "!">>, size |-> 3],
   [kind |-> "str", chars |-> <<"o", "n", "e", "=", "1", "&", "t", "w", "o", "=", "2", "2">>, size |-> 12]}

Requests ==
  {[method |-> IF body.kind = "None" THEN <<"G", "E", "T">> ELSE <<"P", "O", "S", "T">>,
    url |-> url, headers |-> headers, body |-> body] :
     url \in Urls, headers \in HeaderSets, body \in RequestBodies}

\* the override_env mappings of an adapter: None, or values for a fixed key, a
\* header-derived key, adapter-specific keys and the keys of the body
OverrideEnvs ==
  {None,
   (REMOTE_ADDR :> Str(<<"1", "0", ".", "0", ".", "0", ".", "1">>)),
   (REQUEST_METHOD :> Str(<<"H", "E", "A", "D">>)) @@ (HTTP_X_TEST :> Str(<<"f", "o", "r", "c", "e", "d">>))
     @@ (SCRIPT_NAME :> Str(<<"/", "f", "o", "r", "c", "e", "d", ".", "p", "h", "p">>)) @@ (SCRIPT_FILENAME :> Str(<<"f", "o", "r", "c", "e", "d", ".", "p", "h", "p">>)),
   (CONTENT_LENGTH :> Str(<<"9", "9">>)) @@ (CONTENT_TYPE :> Str(<<"x", "/", "y">>))}

\* the connection of a FastCGI adapter: an ExternalConnection to a Unix socket
\* or to a TCP address, or a SubprocessConnection
Connections ==
  {[class |-> "ExternalConnection", address_family |-> "AF_UNIX"],
   [class |-> "ExternalConnection", address_family |-> "AF_INET"],
   [class |-> "SubprocessConnection", address_family |-> "AF_UNIX"]}

\* the adapters after construction
Adapters ==
  {[class |-> "CGIAdapter", working_dir |-> None, php_script |-> None,
    connection |-> None, override_env |-> o] : o \in OverrideEnvs}
  \cup {[class |-> "PHPAdapter", working_dir |-> w, php_script |-> p,
         connection |-> None, override_env |-> o] :
          w \in {None, Str(<<"/", "s", "r", "v">>)}, p \in {None, Str(<<"/", "s", "r", "v", "/", "x", ".", "p", "h", "p">>)},
          o \in OverrideEnvs}
  \cup {[class |-> c, working_dir |-> None, php_script |-> None,
         connection |-> conn, override_env |-> o] :
          c \in {"FastCGIAdapter", "PHPFPMAdapter"}, conn \in Connections,
          o \in OverrideEnvs}

\* an empty dict
EmptyEnv == [k \in {} |-> None]

\* dict.update(other): the keys of other get its values
Update(env, other) ==
  [k \in DOMAIN env \cup DOMAIN other |-> IF k \in DOMAIN other THEN other[k] ELSE env[k]]

\* str.upper(), character by character
ToUpper(s) ==
  [i \in 1..Len(s) |->
     IF \E k \in 1..26 : LowerCase[k] = s[i]
       THEN UpperCase[CHOOSE k \in 1..26 : LowerCase[k] = s[i]]
       ELSE s[i]]

\* str.replace(old, new) for single characters
Replace(s, old, new) == [i \in 1..Len(s) |-> IF s[i] = old THEN new ELSE s[i]]

\* as HeaderKey, but the hyphens stay
HeaderKey_KeepsHyphen(key) == <<"H", "T", "T", "P", "_">> \o ToUpper(key)

\* f"HTTP_{key.upper().replace('-', '_')}"
HeaderKey(key) == <<"H", "T", "T", "P", "_">> \o Replace(ToUpper(key), "-", "_")

\* request.path_url: the path, '/' when it is empty, then '?' and the query
\* when there is one
PathUrl(url) ==
  (IF url.path = <<>> THEN <<"/">> ELSE url.path)
    \o (IF url.query = <<>> THEN <<>> ELSE <<"?">> \o url.query)

\* the standard environment variables of CGIAdapter._cgi_env_helper
FixedEnv(request) ==
  (HTTP_HOST :> request.url.hostname)
    @@ (PATH_INFO :> Str(PathUrl(request.url)))
    @@ (QUERY_STRING :> Str(request.url.query))
    @@ (REMOTE_ADDR :> Str(<<"1", "2", "7", ".", "0", ".", "0", ".", "1">>))
    @@ (REMOTE_HOST :> request.url.hostname)
    @@ (REQUEST_METHOD :> Str(request.method))
    @@ (SCRIPT_NAME :> Str(<<"/">>))
    @@ (SERVER_NAME :> request.url.hostname)
    @@ (SERVER_PROTOCOL :> Str(<<"H", "T", "T", "P", "/", "1", ".", "1">>))
    @@ (GATEWAY_INTERFACE :> Str(<<"C", "G", "I", "/", "1", ".", "1">>))

\* the loop over request.headers.items(): each header sets its key, a later
\* header with the same key replacing the earlier one
HeaderEnv(headers) ==
  [k \in {HeaderKey(headers[i].name) : i \in 1..Len(headers)} |->
     headers[Max({i \in 1..Len(headers) : HeaderKey(headers[i].name) = k})].value]

\* CGIAdapter._cgi_env_helper(self, request)
CgiEnvHelper(request) == Update(FixedEnv(request), HeaderEnv(request.headers))

\* str.lstrip('/')
LStripSlash(s) ==
  LET inner == {i \in 1..Len(s) : s[i] # "/"}
  IN  IF inner = {} THEN <<>> ELSE SubSeq(s, Min(inner), Len(s))

\* PHPAdapter.url_to_filename(url)
UrlToFilename(url) ==
  LStripSlash(IF url.path # <<>> /\ url.path[Len(url.path)] = "/"
                THEN url.path \o <<"i", "n", "d", "e", "x", ".", "p", "h", "p">> ELSE url.path)

\* PHPAdapter._cgi_env_helper(self, request)
PhpEnvHelper(adapter, request) ==
  (REDIRECT_STATUS :> Str(<<"2", "0", "0">>))
    @@ (SCRIPT_NAME :> Str(request.url.path))
    @@ (REQUEST_URI :> Str(PathUrl(request.url)))
    @@ (IF adapter.working_dir # None
          THEN (DOCUMENT_ROOT :> adapter.working_dir)
                 @@ (CONTEXT_DOCUMENT_ROOT :> adapter.working_dir)
          ELSE EmptyEnv)
    @@ (SCRIPT_FILENAME :> IF adapter.php_script = None
                             THEN Str(UrlToFilename(request.url))
                             ELSE adapter.php_script)

\* FastCGIAdapter._cgi_env_helper reads self.address, which the adapter does
\* not have, for an ExternalConnection to a TCP address
FcgiEnvHelperRaises(adapter) ==
  /\ adapter.connection.class = "ExternalConnection"
  /\ adapter.connection.address_family = "AF_INET"

\* as Classes, but from the most specific class to the most generic
Classes_Forward(adapter) == MRO[adapter.class]

\* reversed(self.__class__.__mro__)
Classes(adapter) ==
  [i \in 1..Len(MRO[adapter.class]) |->
     MRO[adapter.class][Len(MRO[adapter.class]) + 1 - i]]

\* the bytes of a character in UTF-8
Utf8(ch) == IF ch \in TwoByteChars THEN <<"\\xc3", "\\xa9">> ELSE <<ch>>

\* str.encode()
RECURSIVE Encode(_)
Encode(chars) ==
  IF chars = <<>> THEN <<>> ELSE Utf8(Head(chars)) \o Encode(Tail(chars))

\* as BuildCgiStdin, but a text body is not encoded
BuildCgiStdin_NotEncoded(request) ==
  IF request.body.kind # "None" /\ request.body.chars # <<>>
    THEN request.body.chars
    ELSE None

\* build_cgi_stdin(request): the body as bytes, None without a body
BuildCgiStdin(request) ==
  IF request.body.kind # "None" /\ request.body.chars # <<>>
    THEN IF request.body.kind = "bytes" THEN request.body.chars
         ELSE Encode(request.body.chars)
    ELSE None

\* str(n) for n >= 0
RECURSIVE DecimalString(_)
DecimalString(n) ==
  IF n < 10 THEN <<Digits[n + 1]>>
  ELSE DecimalString(n \div 10) \o <<Digits[(n % 10) + 1]>>

\* the frame of a send call while the environment is built
EnvFrame(adapter, request) ==
  [pc |-> "env", adapter |-> adapter, request |-> request,
   classes |-> Classes(adapter), applied |-> <<>>, env |-> EmptyEnv,
   stdin |-> <<>>, outcome |-> ""]

InitEnv ==
  /\ requests = <<None>>
  /\ base = 0
  /\ socket = None
  /\ nconn = 0
  /\ writers = {}
  /\ nexch = 0
  /\ call = [c \in Callers |-> IdleFrame]
  /\ healthy = TRUE
  /\ stream = <<>>
  /\ reader = None
  /\ codec = None
  /\ cgi \in {EnvFrame(adapter, request) : adapter \in Adapters, request \in Requests}

\* build_cgi_env: a class without a _cgi_env_helper of its own is passed over
SkipClass ==
  /\ cgi.pc = "env"
  /\ cgi.classes # <<>>
  /\ Head(cgi.classes) \notin HasHelper
  /\ cgi' = [cgi EXCEPT !.classes = Tail(@)]
  /\ UNCHANGED <<exchangeVars, stream, reader, codec>>

\* build_cgi_env: env.update(CGIAdapter._cgi_env_helper(self, request))
HelperCGI ==
  /\ cgi.pc = "env"
  /\ cgi.classes # <<>>
  /\ Head(cgi.classes) = "CGIAdapter"
  /\ cgi' = [cgi EXCEPT !.classes = Tail(@),
                        !.applied = Append(@, "CGIAdapter"),
                        !.env = Update(@, CgiEnvHelper(cgi.request))]
  /\ UNCHANGED <<exchangeVars, stream, reader, codec>>

\* build_cgi_env: env.update(PHPAdapter._cgi_env_helper(self, request))
HelperPHP ==
  /\ cgi.pc = "env"
  /\ cgi.classes # <<>>
  /\ Head(cgi.classes) = "PHPAdapter"
  /\ cgi' = [cgi EXCEPT !.classes = Tail(@),
                        !.applied = Append(@, "PHPAdapter"),
                        !.env = Update(@, PhpEnvHelper(cgi.adapter, cgi.request))]
  /\ UNCHANGED <<exchangeVars, stream, reader, codec>>

\* build_cgi_env: env.update(FastCGIAdapter._cgi_env_helper(self, request)),
\* which returns {} for a connection that is not an ExternalConnection to a
\* TCP address
HelperFastCGI ==
  /\ cgi.pc = "env"
  /\ cgi.classes # <<>>
  /\ Head(cgi.classes) = "FastCGIAdapter"
  /\ ~FcgiEnvHelperRaises(cgi.adapter)
  /\ cgi' = [cgi EXCEPT !.classes = Tail(@),
                        !.applied = Append(@, "FastCGIAdapter"),
                        !.env = Update(@, EmptyEnv)]
  /\ UNCHANGED <<exchangeVars, stream, reader, codec>>

\* FastCGIAdapter._cgi_env_helper raises AttributeError: send ends with it
HelperFastCGIRaises ==
  /\ cgi.pc = "env"
  /\ cgi.classes # <<>>
  /\ Head(cgi.classes) = "FastCGIAdapter"
  /\ FcgiEnvHelperRaises(cgi.adapter)
  /\ cgi' = [cgi EXCEPT !.pc = "raised", !.outcome = "AttributeError"]
  /\ UNCHANGED <<exchangeVars, stream, reader, codec>>

\* build_cgi_env: after the classes, env.update(self.override_env) unless it
\* is None; the environment is returned to send
MergeOverrides ==
  /\ cgi.pc = "env"
  /\ cgi.classes = <<>>
  /\ cgi' = [cgi EXCEPT !.pc = "built",
                        !.env = IF cgi.adapter.override_env # None
                                  THEN Update(@, cgi.adapter.override_env) ELSE @]
  /\ UNCHANGED <<exchangeVars, stream, reader, codec>>

\* send, after build_cgi_env: without a body stdin is b''; with one,
\* CONTENT_LENGTH and CONTENT_TYPE are set; env and stdin go to execute_send
SetContent ==
  /\ cgi.pc = "built"
  /\ LET stdin == BuildCgiStdin(cgi.request)
         type == Lookup(cgi.request.headers, ToLower(<<"C", "o", "n", "t", "e", "n", "t", "-", "T", "y", "p", "e">>))
     IN  cgi' = IF stdin = None
                  THEN [cgi EXCEPT !.pc = "handed", !.stdin = <<>>]
                  ELSE [cgi EXCEPT
                          !.pc = "handed", !.stdin = stdin,
                          !.env = Update(@,
                                    (CONTENT_LENGTH :> Str(DecimalString(Len(stdin))))
                                      @@ (CONTENT_TYPE :> IF type.found THEN type.value
                                                          ELSE Str(<<"t", "e", "x", "t", "/", "p", "l", "a", "i", "n">>)))]
  /\ UNCHANGED <<exchangeVars, stream, reader, codec>>

NextEnv ==
  \/ SkipClass
  \/ HelperCGI
  \/ HelperPHP
  \/ HelperFastCGI
  \/ HelperFastCGIRaises
  \/ MergeOverrides
  \/ SetContent

SpecEnv == InitEnv /\ [][NextEnv]_vars

\* ----------------------------- FastCGIAdapter: one send after another, whole
\* the adapters of the session: FastCGIAdapter.connect(address, address_family)
SessionAdapters ==
  {a \in Adapters : /\ a.class = "FastCGIAdapter"
                    /\ a.connection.class = "ExternalConnection"
                    /\ a.override_env = None}

\* the requests of the session: a GET without a body and a POST with one
SessionRequests ==
  {r \in Requests : /\ r.headers = <<>>
                    /\ r.url.hostname # None /\ r.url.query = <<>>
                    /\ r.body.kind \in {"None", "bytes"}}

\* the adapter after construction, and the first call of send
InitSends ==
  /\ requests = <<None>>
  /\ base = 0
  /\ socket = None
  /\ nconn = 0
  /\ writers = {}
  /\ nexch = 0
  /\ call = [c \in Callers |-> IdleFrame]
  /\ healthy = TRUE
  /\ stream = <<>>
  /\ reader = None
  /\ codec = None
  /\ cgi \in {EnvFrame(adapter, request) :
                adapter \in SessionAdapters, request \in SessionRequests}

\* send: return self.execute_send(request, env, stdin, timeout), after the
\* environment and the body were built
SendExecute ==
  /\ cgi.pc = "handed"
  /\ call[1].pc = "idle"
  /\ StartExchange(1, 24, Len(cgi.stdin))

\* send has returned or raised; the session calls send for the next request
NextSend ==
  /\ \/ cgi.pc = "raised"
     \/ cgi.pc = "handed" /\ call[1].pc = "done"
  /\ cgi' \in {EnvFrame(cgi.adapter, request) : request \in SessionRequests}
  /\ call' = [call EXCEPT ![1] = IdleFrame]
  /\ UNCHANGED <<requests, base, socket, nconn, writers, nexch, healthy,
                 stream, reader, codec>>

NextSends ==
  \/ SkipClass
  \/ HelperCGI
  \/ HelperFastCGI
  \/ HelperFastCGIRaises
  \/ MergeOverrides
  \/ SetContent
  \/ SendExecute
  \/ OpenConnect(1)
  \/ AcquireId(1)
  \/ Assemble(1)
  \/ Send(1, PacketSize(call[1].packet))
  \/ \E type \in {RecordType.stdout, RecordType.end} :
       RecvRecord(1, type, call[1].req_id, call[1].exch)
  \/ \E text \in DOMAIN ContentText : RecvEnd(1, text)
  \/ ReadRaise(1, "recv: TimeoutError")
  \/ NextSend

SpecSends == InitSends /\ [][NextSends]_vars

\* ------------------------------------------------------------------ claims
\* the indices of the table that hold an ActiveRequest
LiveIndices ==
  (1..base) \cup {base + k : k \in {j \in 1..(Len(requests) - 1) : requests[j + 1] # None}}

\* the total content_length of the records of one type in w
RECURSIVE ContentTotal(_, _)
ContentTotal(w, type) ==
  IF w = <<>> THEN 0
  ELSE (IF Head(w).header.type = type THEN Head(w).header.content_length ELSE 0)
       + ContentTotal(Tail(w), type)

\* w is: one Begin-Request record (responder, no flags, 8-byte body), the Params
\* records (plen bytes in all) with one empty Params record last, the Stdin
\* records (slen bytes in all) with one empty Stdin record last of all; every
\* record carries request ID id
IsSendSequence(w, id, plen, slen) ==
  LET n == Len(w)
      P == {k \in 1..n : w[k].header.type = RecordType.params}
      S == {k \in 1..n : w[k].header.type = RecordType.stdin}
      Empty(k) == w[k].header.content_length = 0
  IN  /\ n >= 3
      /\ w[1].header.type = RecordType.begin
      /\ w[1].content.role = 1 /\ w[1].content.flags = 0
      /\ w[1].header.content_length = 8 /\ w[1].content.len = 8
      /\ P \cup S = 2..n
      /\ \A p \in P, q \in S : p < q
      /\ \E p \in P : Empty(p) /\ \A k \in P : (k < p /\ ~Empty(k)) \/ k = p
      /\ Empty(n) /\ n \in S /\ \A k \in S \ {n} : ~Empty(k)
      /\ ContentTotal(w, RecordType.params) = plen
      /\ ContentTotal(w, RecordType.stdin) = slen
      /\ \A k \in 1..n : w[k].header.request_id = id /\ w[k].header.content_length = w[k].content.len

\* C1: in every exchange the transport has been given, by the time the receive
\* loop reads, exactly: one Begin-Request record (role 1, flags 0, 8-byte body),
\* the Params records and one empty Params record, the Stdin records and one
\* empty Stdin record, in this order, all with the acquired request ID, and
\* nothing after the empty Stdin record.
C1_SendSequence ==
  \A c \in Callers :
    call[c].pc = "await" \/ (call[c].pc = "done" /\ call[c].sent > 0)
      => IsSendSequence(call[c].written, call[c].req_id, call[c].plen, call[c].slen)

C4_SlotFreed ==
  /\ \A c \in Callers :
       call[c].pc = "done" /\ call[c].sent > 0 => Slot(requests, call[c].req_id) = None
  /\ (\A c \in Callers : call[c].pc \in {"idle", "done"}) => LiveIndices = {}
  /\ Cardinality(LiveIndices) <= 1
  /\ \A c \in Callers : call[c].pc = "assemble" => call[c].req_id = 1

\* C5: in exchanges that follow one another on one client, no record the backend
\* sent for another exchange is appended to the content or applied to the state
\* of this one, an ID is acquired only when its slot is empty, and every
\* exchange of a healthy backend returns a response.
C5_SequentialExchanges ==
  \A c \in Callers :
    /\ call[c].applied \subseteq {call[c].exch}
    /\ call[c].pc = "await" =>
         \A k \in 1..Len(Slot(requests, call[c].req_id).content) :
           Slot(requests, call[c].req_id).content[k].o = call[c].exch
    /\ call[c].pc = "assemble" => Slot(requests, call[c].req_id) = None
    /\ call[c].pc = "done" /\ healthy => call[c].outcome = "Response"

\* C7: a record whose request ID is not the acquired one, whatever its type
\* (ID 0 included), leaves the request table (content and state) as it was, and
\* the loop goes on reading.
C7_ForeignRecordIgnored ==
  [][\A c \in Callers, type \in RecvTypes, request_id \in RecvIds, origin \in 1..MaxExchanges :
       request_id # call[c].req_id /\ RecvRecord(c, type, request_id, origin)
         => requests' = requests /\ call'[c].pc = "await"]_vars

C7_Witness ==
  \E c \in Callers :
    /\ call[c].pc = "await"
    /\ call[c].ignored = 2 /\ call[c].nread = 2
    /\ Slot(requests, call[c].req_id) = ActiveRequest(call[c].req_id, State.send, <<>>)

\* C8: when an exchange has ended the socket is None, and every exchange that
\* got a connection opened it itself. 
C8_ConnectionPerExchange ==
  \A c \in Callers :
    /\ call[c].pc = "done" => socket = None
    /\ call[c].conn # 0 => call[c].opened

\* C9: a read that times out ends the call with ReadTimeout, a read that fails
\* with a socket error ends it with ConnectionError, and in both cases the
\* socket is closed (None) when the error reaches the caller.
C9_ReadFailureCloses ==
  \A c \in Callers :
    call[c].pc = "done" =>
      /\ call[c].cause = "recv: TimeoutError"
           => call[c].outcome = "ReadTimeout" /\ socket = None
      /\ call[c].cause = "recv: SocketError"
           => call[c].outcome = "ConnectionError: Unexpected socket error" /\ socket = None

C9_Witness ==
  \E c \in Callers :
    /\ call[c].pc = "done"
    /\ call[c].cause = "recv: TimeoutError"
    /\ call[c].nread > 0

\* C10: a failed connect ends the call with ConnectionError, the socket stays
\* None, no request ID is acquired and the request table is not changed
\* between the call's start and its end.
C10_ConnectFailure ==
  /\ [](\A c \in Callers :
          call[c].pc = "done" /\ call[c].cause = "connect: SocketError"
            => /\ call[c].outcome = "ConnectionError: Could not connect"
               /\ socket = None
               /\ call[c].req_id = 0)
  /\ [][\A c \in Callers :
          call[c].pc = "open" /\ call'[c].pc = "done" => requests' = requests]_vars

C10_Witness ==
  \E c \in Callers :
    /\ call[c].pc = "done"
    /\ call[c].cause = "connect: SocketError"
    /\ call[c].exch = 2

\* C3: the acquired ID is the smallest index >= 1 whose slot is empty, the
\* table growing by one slot only when there is none, and it is never 0 and
\* never above 65535.
C3_LowestFreeId ==
  \A c \in Callers :
    call[c].pc = "assemble" =>
      /\ FreeIndices(requests) # {}
      /\ call[c].req_id \in FreeIndices(requests)
      /\ \A i \in FreeIndices(requests) : call[c].req_id <= i
      /\ call[c].req_id >= 1
      /\ call[c].req_id <= 65535

\* C6: two calls under way at once never hold the same request ID, and a step
\* of one call leaves the slot the other call has set as it was.
C6_MutualExclusion ==
  /\ [](\A c, d \in Callers :
          c # d /\ Holding(c) /\ Holding(d) => call[c].req_id # call[d].req_id)
  /\ [][\A c, d \in Callers :
          c # d /\ call[d].pc = "await" /\ call'[d] = call[d]
            => Slot(requests', call[d].req_id) = Slot(requests, call[d].req_id)]_vars

\* C13: no call ends in struct.error for the size of its environment or body;
\* every record of the packet handed to the socket has a content_length of at
\* most 65535 that equals the length of its content, and the Params and Stdin
\* records together carry all the bytes of the parameters and of the body.
C13_ContentLengthFits ==
  \A c \in Callers :
    /\ call[c].pc = "done" => call[c].cause # "struct.error"
    /\ call[c].pc \in {"send", "await"} =>
         /\ \A k \in 1..Len(call[c].packet) :
              /\ call[c].packet[k].header.content_length <= 65535
              /\ call[c].packet[k].header.content_length = call[c].packet[k].content.len
         /\ ContentTotal(call[c].packet, RecordType.params) = call[c].plen
         /\ ContentTotal(call[c].packet, RecordType.stdin) = call[c].slen

\* C17: when the exchange ends in state error (a Stderr record was received and
\* the stream ended), the exception raised to the caller carries the bytes
\* received in the Stderr records.
C17_ErrorCarriesStderr ==
  \A c \in Callers :
    call[c].pc = "done" /\ call[c].sawStderr
      /\ call[c].outcome = "ConnectionError: Invalid response"
      => \E k \in 1..Len(call[c].attached) : call[c].attached[k].t = RecordType.stderr

\* the size and the value of the length prefix at the head of b: one byte below
\* 128, else four bytes big-endian with the top bit set (0 bytes: b is too short)
PrefixSize(b) ==
  IF b = <<>> THEN 0 ELSE IF b[1] < 128 THEN 1 ELSE IF Len(b) >= 4 THEN 4 ELSE 0

PrefixValue(b) ==
  IF b[1] < 128 THEN b[1]
  ELSE (b[1] - 128) * 16777216 + b[2] * 65536 + b[3] * 256 + b[4]

Drop(b, n) == SubSeq(b, n + 1, Len(b))

\* the pairs that b holds, read by the rule above: name length, value length,
\* name, value, and so on to the end of b
Malformed == <<[malformed |-> TRUE]>>

RECURSIVE DecodePairs(_)
DecodePairs(b) ==
  IF b = <<>> THEN <<>>
  ELSE IF PrefixSize(b) = 0 \/ PrefixSize(Drop(b, PrefixSize(b))) = 0 THEN Malformed
  ELSE LET afterName == Drop(b, PrefixSize(b))
           rest == Drop(afterName, PrefixSize(afterName))
           n == PrefixValue(b)
           v == PrefixValue(afterName)
       IN  IF Len(rest) < n + v THEN Malformed
           ELSE <<[name |-> SubSeq(rest, 1, n), value |-> SubSeq(rest, n + 1, n + v)]>>
                \o DecodePairs(Drop(rest, n + v))

\* C14: the encoding of a pair is the prefix of the name length, the prefix of
\* the value length, the name and the value, nothing between them (a length
\* below 128 as one byte, a length from 128 on as four bytes with the top bit
\* set); reading the encoded environment back by this rule gives the same pairs
\* in the same order, for name and value lengths 0, 1, 127, 128 and 300.
C14_NameValueRoundTrip ==
  codec.op = "params" /\ codec.pc = "encoded" =>
    LET first == codec.input[1]
        n == Len(first.name)
        v == Len(first.value)
        b == codec.bytes
    IN  /\ DecodePairs(b) = codec.input
        /\ PrefixSize(b) = (IF n < 128 THEN 1 ELSE 4)
        /\ PrefixValue(b) = n
        /\ n >= 128 => b[1] >= 128
        /\ PrefixSize(Drop(b, PrefixSize(b))) = (IF v < 128 THEN 1 ELSE 4)
        /\ PrefixValue(Drop(b, PrefixSize(b))) = v
        /\ LET body == Drop(Drop(b, PrefixSize(b)), PrefixSize(Drop(b, PrefixSize(b))))
            IN  /\ SubSeq(body, 1, n) = first.name
                /\ SubSeq(body, n + 1, n + v) = first.value
                /\ Len(codec.input) = 1 => Len(body) = n + v

C14_Witness ==
  /\ codec.op = "params" /\ codec.pc = "encoded"
  /\ Len(codec.input) = 2
  /\ Len(codec.input[1].name) = 128 /\ Len(codec.input[1].value) = 127
  /\ Len(codec.input[2].name) = 300 /\ Len(codec.input[2].value) = 128
  /\ Len(codec.bytes) = 4 + 1 + 128 + 127 + 4 + 4 + 300 + 128

\* C15: for version, type and padding_length in 0..255 and request_id and
\* content_length in 0..65535 the header encodes to exactly 8 bytes: version,
\* type, request_id (2 bytes big-endian), content_length (2 bytes big-endian),
\* padding_length, one zero byte; and decoding them gives the same header.
C15_HeaderRoundTrip ==
  codec.op = "header" =>
    LET h == codec.input
        b == codec.bytes
        inRange == /\ h.version \in 0..255 /\ h.type \in 0..255
                   /\ h.padding_length \in 0..255
                   /\ h.request_id \in 0..65535 /\ h.content_length \in 0..65535
    IN  /\ inRange => codec.pc # "raised"
        /\ codec.pc \in {"encoded", "decoded"} =>
             /\ Len(b) = 8
             /\ b[1] = h.version /\ b[2] = h.type
             /\ b[3] * 256 + b[4] = h.request_id /\ b[3] \in 0..255 /\ b[4] \in 0..255
             /\ b[5] * 256 + b[6] = h.content_length /\ b[5] \in 0..255 /\ b[6] \in 0..255
             /\ b[7] = h.padding_length /\ b[8] = 0
        /\ codec.pc = "decoded" => codec.output = h

C15_Witness ==
  /\ codec.op = "header" /\ codec.pc = "decoded"
  /\ codec.input.request_id = 65535 /\ codec.input.content_length = 256
  /\ codec.input.padding_length = 255
  /\ codec.output = codec.input

\* C11: on a stream that holds the whole bytes of the records written, however
\* the reads split them, no call raises, the i-th call returns the header and
\* the content of the i-th record written and consumes exactly
\* 8 + content_length + padding_length bytes, and when the stream is at its end
\* every record written has been returned.
C11_RecordsInOrder ==
  reader # None /\ reader.whole =>
    /\ reader.pc # "raised"
    /\ Len(reader.records) <= Len(reader.sent)
    /\ \A i \in 1..Len(reader.records) :
         i <= Len(reader.sent) =>
           /\ reader.records[i] = reader.sent[i]
           /\ reader.consumed[i] = 8 + reader.sent[i].header.content_length
                                      + reader.sent[i].header.padding_length
    /\ reader.pc = "closed" => Len(reader.records) = Len(reader.sent)

\* C12: a call raises only when its header read returned 1 to 7 bytes; when a
\* read inside the content returns no bytes the loop ends and the call returns
\* the record with the bytes collected so far, fewer than content_length; and
\* it returns None only when the header read returned no bytes.
C12_TruncatedContentReturned ==
  /\ [](reader # None =>
          /\ reader.pc = "raised" => reader.got \in 1..7
          /\ reader.pc = "closed" => reader.got = 0
          /\ reader.pc = "padding" /\ reader.broke =>
               /\ reader.got = 8
               /\ Len(reader.content) = reader.bytes_read
               /\ reader.bytes_read < reader.header.content_length)
  /\ [][reader # None /\ reader.pc = "padding" /\ reader.broke /\ reader' # reader
          => /\ reader'.pc = "header"
             /\ reader'.records =
                  Append(reader.records,
                         [header |-> reader.header, content |-> reader.content])]_vars

C12_Witness ==
  /\ reader # None
  /\ reader.pc = "closed"
  /\ \E i \in 1..Len(reader.records) :
       /\ Len(reader.records[i].content) = 1
       /\ reader.records[i].header.content_length = 2
       /\ reader.records[i].content = <<reader.sent[i].content[1]>>

\* C16: a header read that returned 1 to 7 bytes gives no header and no record
\* (every record returned was built from 8 header bytes), and when the stream
\* has closed in the middle of a header the call fails with ConnectionError,
\* not with an exception of the decoder.
C16_ShortHeaderIsConnectionFailure ==
  reader # None =>
    /\ \A i \in 1..Len(reader.consumed) : reader.consumed[i] >= 8
    /\ reader.got \in 1..7 =>
         /\ reader.pc = "raised"
         /\ stream = <<>> => reader.outcome = "ConnectionError"

\* the name, in lower case, and the value of the other header a backend writes
X_TEST == <<"x", "-", "t", "e", "s", "t">>

YEP == <<"y", "e", "p">>

\* C18: output that the backend began with a status line (HTTP/...) is not
\* taken as CGI headers: the status code and the reason phrase of the response
\* are those of its status line, whatever Status header it holds, its headers
\* and body are those of the message, and a status line with a code from 100
\* to 999 gives a response; every other output is taken as CGI headers.
C18_DirectHttpMode ==
  cgi # None /\ cgi.pc = "done" =>
    LET d == cgi.written
        r == cgi.result
    IN  /\ d.line.text = <<>> => r.is_parsed_mode
        /\ d.line.text # <<>> =>
             /\ ~r.is_parsed_mode
             /\ d.line.code \in 100..999 => r.outcome = "Response"
             /\ r.outcome = "Response" =>
                  /\ r.status_code = d.line.code
                  /\ r.reason = d.line.reason
                  /\ r.body = d.body
                  /\ d.extra # <<>> => Lookup(r.headers, X_TEST) = [found |-> TRUE, value |-> YEP]
                  /\ d.extra = <<>> => ~Lookup(r.headers, X_TEST).found

C18_Witness ==
  /\ cgi # None /\ cgi.pc = "done"
  /\ cgi.written.line.code = 404
  /\ cgi.written.header.present /\ cgi.written.header.code = 200
  /\ cgi.written.extra # <<>>
  /\ cgi.result.outcome = "Response"
  /\ cgi.result.status_code = 404

\* C19: for output without a status line, a Status header (in any letter
\* case) whose value is a 3-digit code, a space and a reason phrase gives a
\* response with that code and that reason phrase, also for codes from 400 on;
\* without a Status header the response has status 200; and the body of the
\* response is what follows the first blank line.
C19_CgiStatusHeader ==
  cgi # None /\ cgi.pc = "done" /\ cgi.written.line.text = <<>> =>
    LET d == cgi.written
        r == cgi.result
    IN  /\ d.header.present /\ d.header.digits3 =>
             /\ r.outcome = "Response"
             /\ r.status_code = d.header.code
             /\ r.reason = d.header.reason
        /\ ~d.header.present => r.outcome = "Response" /\ r.status_code = 200
        /\ r.outcome = "Response" => r.body = d.body

C19_Witness ==
  /\ cgi # None /\ cgi.pc = "done" /\ cgi.written.line.text = <<>>
  /\ cgi.written.header.code = 500
  /\ cgi.written.body # <<>>
  /\ cgi.result.outcome = "Response"
  /\ cgi.result.status_code = 500
  /\ cgi.result.body = cgi.written.body

\* C20: for output without a status line, a Status header whose value does not
\* start with a 3-digit code makes the call fail ("Could not parse status
\* header"), and no response is returned.
C20_MalformedStatusRaises ==
  cgi # None /\ cgi.pc = "done" /\ cgi.written.line.text = <<>>
    /\ cgi.written.header.present /\ ~cgi.written.header.digits3
    => cgi.result.outcome = "ConnectionError: Could not parse status header"

\* C30: execute_send returns a response only if an End-Request record with the
\* acquired ID was received before the stream closed and no Stderr record with
\* the acquired ID was received at all, before or after the End-Request; a call
\* that ended in any other way returns no response.
C30_ResponseOnlyAfterCleanEnd ==
  \A c \in Callers :
    call[c].pc = "done" =>
      /\ call[c].outcome = "Response" => call[c].sawEnd /\ ~call[c].sawStderr
      /\ ~(call[c].sawEnd /\ ~call[c].sawStderr)
           => /\ call[c].outcome \notin {"", "Response"}
              /\ call[c].response = <<>>

\* the Stderr record came after the End-Request record
C30_Witness ==
  \E c \in Callers :
    /\ call[c].pc = "done"
    /\ call[c].sawEnd /\ call[c].sawStderr /\ ~call[c].endAfterStderr
    /\ call[c].outcome = "ConnectionError: Invalid response"

\* the output has a status line with a valid code, or a Status header whose
\* value starts with a 3-digit code
Parsable(written) ==
  /\ written # Nothing
  /\ IF written.line.text # <<>> THEN written.line.code >= 100
     ELSE written.header.digits3

\* the status the output states
Stated(written) ==
  IF written.line.text # <<>> THEN written.line.code ELSE written.header.code

\* the output is not a well-formed header block: its status line has no valid
\* code, or a header line has no colon
Unparsable(written) ==
  /\ written # Nothing
  /\ \/ written.line.text # <<>> /\ written.line.code < 100
     \/ written.extra # <<>> /\ IndexOf(written.extra, ":") = 0

\* C21: output whose header block cannot be parsed ends the call with
\* ConnectionError and no response: on the plain-CGI path for exit code 0 and
\* for another exit code, and on the FastCGI path after an exchange that ended
\* in success, where the connection is closed and the slot is None by then.
C21_UnparsableOutputFails ==
  /\ cgi.pc = "done" /\ cgi.child = "exited" /\ Unparsable(cgi.script.written)
       => /\ cgi.result.outcome = "ConnectionError"
          /\ cgi.result.response = None
  /\ \A c \in Callers :
       call[c].pc = "done" /\ call[c].cause = "HTTPException"
         => /\ call[c].outcome = "ConnectionError"
            /\ call[c].response = <<>>
            /\ call[c].sawEnd /\ ~call[c].sawStderr
            /\ socket = None
            /\ Slot(requests, call[c].req_id) = None

\* C22: a plain-CGI call whose child exits with a nonzero code and wrote
\* parsable output to stdout returns the response built from that output, with
\* the status and the body the output states, and raises nothing.
C22_NonzeroExitWithOutput ==
  cgi.pc = "done" /\ cgi.child = "exited" /\ cgi.script.exit # 0
      /\ Parsable(cgi.script.written)
    => /\ cgi.result.outcome = "Response"
       /\ cgi.result.response.status_code = Stated(cgi.script.written)
       /\ cgi.result.response.body = cgi.script.written.body

C22_Witness ==
  /\ cgi.pc = "done" /\ cgi.script.exit # 0
  /\ Parsable(cgi.script.written) /\ Stated(cgi.script.written) = 500
  /\ cgi.result.outcome = "Response"
  /\ cgi.result.response.status_code = 500

\* C23: a plain-CGI call whose child exits with a nonzero code and wrote
\* nothing to stdout fails with ConnectionError whose first argument is the
\* captured stderr, and returns no response; after exit code 0 the call never
\* ends in that ConnectionError.
C23_NonzeroExitWithoutOutput ==
  cgi.pc = "done" /\ cgi.child = "exited"
    => /\ cgi.script.exit # 0 /\ cgi.script.written = Nothing
            => /\ cgi.result.outcome = "ConnectionError"
               /\ cgi.result.cause = "CalledProcessError"
               /\ Len(cgi.result.args) > 0
               /\ cgi.result.args[1] = cgi.script.stderr
               /\ cgi.result.response = None
       /\ cgi.script.exit = 0
            => cgi.result.cause # "CalledProcessError" /\ cgi.result.args = <<>>

C23_Witness ==
  /\ cgi.pc = "done" /\ cgi.script.exit # 0 /\ cgi.script.written = Nothing
  /\ cgi.script.stderr # <<>>
  /\ cgi.result.outcome = "ConnectionError"
  /\ cgi.result.args[1] = cgi.script.stderr

\* the read value of the timeout argument
ReadValue(timeout) == IF timeout.kind = "tuple" THEN timeout.read ELSE timeout

\* C24: a plain-CGI call ends in ReadTimeout exactly when the child runs longer
\* than the timeout, which for a (connect, read) pair is the read value; the
\* child is then killed and nothing it wrote is built into a response.
C24_TimeoutKillsChild ==
  cgi.pc = "done"
    => /\ cgi.result.outcome = "ReadTimeout"
            <=> /\ ReadValue(cgi.timeout).kind = "float"
                /\ cgi.script.duration > ReadValue(cgi.timeout).value
       /\ cgi.result.outcome = "ReadTimeout"
            => cgi.child = "killed" /\ cgi.result.response = None

\* the connect value would have let the child finish, the read value does not
C24_Witness ==
  /\ cgi.pc = "done"
  /\ cgi.timeout.kind = "tuple"
  /\ cgi.script.duration <= cgi.timeout.connect.value
  /\ cgi.script.written # Nothing
  /\ cgi.result.outcome = "ReadTimeout"
  /\ cgi.child = "killed"

\* the Content-Type header the request states, or the default text/plain
StatedContentType(request) ==
  LET hits == {i \in 1..Len(request.headers) :
                 request.headers[i].key = HTTP_CONTENT_TYPE}
  IN  IF hits = {} THEN Str(<<"t", "e", "x", "t", "/", "p", "l", "a", "i", "n">>)
      ELSE request.headers[CHOOSE i \in hits : TRUE].value

\* value is the decimal string of n
IsDecimalOf(value, n) ==
  /\ DOMAIN value = {"str"}
  /\ value.str # <<>>
  /\ \A i \in 1..Len(value.str) : IsDigit(value.str[i])
  /\ Len(value.str) > 1 => value.str[1] # "0"
  /\ DigitsValue(value.str, Len(value.str)) = n

\* the keys of a request with a body: CONTENT_LENGTH is the decimal string of
\* the body's size in bytes, CONTENT_TYPE the Content-Type header or text/plain
BodyKeys ==
  /\ CONTENT_LENGTH \in DOMAIN cgi.env
  /\ IsDecimalOf(cgi.env[CONTENT_LENGTH], cgi.request.body.size)
  /\ CONTENT_TYPE \in DOMAIN cgi.env
  /\ cgi.env[CONTENT_TYPE] = StatedContentType(cgi.request)

\* C25, as stated: the environment handed to the transport has neither
\* CONTENT_LENGTH nor CONTENT_TYPE for a request without a body; for a request
\* with a body of L bytes (a text body counted after encoding) CONTENT_LENGTH is
\* the decimal string of L and CONTENT_TYPE the Content-Type header or
\* text/plain.
C25_ContentKeys ==
  cgi.pc = "handed" =>
    IF cgi.request.body.kind = "None"
      THEN CONTENT_LENGTH \notin DOMAIN cgi.env /\ CONTENT_TYPE \notin DOMAIN cgi.env
      ELSE BodyKeys

\* C25, amended: for a request without a body the environment has
\* CONTENT_LENGTH or CONTENT_TYPE only when the caller's override mapping has
\* that key, and then with the override's value; for a request with a body of
\* L bytes (a text body counted after encoding) CONTENT_LENGTH is the decimal
\* string of L and CONTENT_TYPE the Content-Type header or text/plain.
C25_ContentKeys_Amended ==
  cgi.pc = "handed" =>
    IF cgi.request.body.kind = "None"
      THEN \A k \in {CONTENT_LENGTH, CONTENT_TYPE} :
             k \in DOMAIN cgi.env
               => /\ cgi.adapter.override_env # None
                  /\ k \in DOMAIN cgi.adapter.override_env
                  /\ cgi.env[k] = cgi.adapter.override_env[k]
      ELSE BodyKeys

\* a text body whose encoding is longer than its text
C25_Witness ==
  /\ cgi.pc = "handed"
  /\ cgi.request.body.kind = "str"
  /\ cgi.request.body.size > Len(cgi.request.body.chars)
  /\ cgi.env[CONTENT_LENGTH] = Str(<<"3">>)
  /\ cgi.env[CONTENT_TYPE] = Str(<<"t", "e", "x", "t", "/", "p", "l", "a", "i", "n">>)

\* C26: for every key of the caller's override mapping the environment handed
\* to the transport has the override's value, whatever was computed for the
\* key: fixed keys, header-derived keys, adapter-specific keys, and
\* CONTENT_LENGTH and CONTENT_TYPE of a request with a body.
C26_OverridesWin ==
  cgi.pc = "handed" /\ cgi.adapter.override_env # None =>
    \A k \in DOMAIN cgi.adapter.override_env :
      k \in DOMAIN cgi.env /\ cgi.env[k] = cgi.adapter.override_env[k]

\* the classes whose contributions make up the environment, the most generic
\* first
Contributors ==
  [CGIAdapter |-> <<"CGIAdapter">>,
   PHPAdapter |-> <<"CGIAdapter", "PHPAdapter">>,
   FastCGIAdapter |-> <<"CGIAdapter", "FastCGIAdapter">>,
   PHPFPMAdapter |-> <<"CGIAdapter", "PHPAdapter", "FastCGIAdapter">>]

IsPrefix(s, t) == Len(s) <= Len(t) /\ SubSeq(t, 1, Len(s)) = s

\* what a class contributes to the environment of the call
Contribution(class) ==
  IF class = "CGIAdapter" THEN CgiEnvHelper(cgi.request)
  ELSE IF class = "PHPAdapter" THEN PhpEnvHelper(cgi.adapter, cgi.request)
  ELSE EmptyEnv

\* the contributions of the classes merged one after the other
RECURSIVE Merged(_)
Merged(classes) ==
  IF classes = <<>> THEN EmptyEnv
  ELSE Update(Merged(SubSeq(classes, 1, Len(classes) - 1)),
              Contribution(classes[Len(classes)]))

\* C27: build_cgi_env calls the helpers of the adapter's classes from the most
\* generic to the most specific (CGI, then PHP, then FastCGI for the PHP-FPM
\* adapter), each once; the environment it returns is their contributions
\* merged in that order, a later value replacing an earlier one of the same key
\* (the PHP adapter's SCRIPT_NAME replaces '/'), with the caller's overrides
\* merged last.
C27_MergeOrder ==
  /\ IsPrefix(cgi.applied, Contributors[cgi.adapter.class])
  /\ cgi.pc = "built" =>
       /\ cgi.applied = Contributors[cgi.adapter.class]
       /\ cgi.env = IF cgi.adapter.override_env = None
                      THEN Merged(cgi.applied)
                      ELSE Update(Merged(cgi.applied), cgi.adapter.override_env)
       /\ cgi.adapter.class \in {"PHPAdapter", "PHPFPMAdapter"}
            /\ (cgi.adapter.override_env = None
                  \/ SCRIPT_NAME \notin DOMAIN cgi.adapter.override_env)
            => cgi.env[SCRIPT_NAME] = Str(cgi.request.url.path)
       /\ cgi.adapter.override_env # None =>
            \A k \in DOMAIN cgi.adapter.override_env :
              cgi.env[k] = cgi.adapter.override_env[k]

\* the PHP-FPM adapter with overrides of keys that two classes contribute
C27_Witness ==
  /\ cgi.pc = "built"
  /\ cgi.adapter.class = "PHPFPMAdapter"
  /\ cgi.applied = <<"CGIAdapter", "PHPAdapter", "FastCGIAdapter">>
  /\ cgi.adapter.override_env # None
  /\ SCRIPT_NAME \in DOMAIN cgi.adapter.override_env
  /\ cgi.env[SCRIPT_NAME] = Str(<<"/", "f", "o", "r", "c", "e", "d", ".", "p", "h", "p">>)

\* no caller override names the key
NotOverridden(key) ==
  cgi.adapter.override_env = None \/ key \notin DOMAIN cgi.adapter.override_env

\* the fixed keys keep their values when no header stands for them
FixedKeysKept ==
  cgi.pc = "env" /\ cgi.applied = <<"CGIAdapter">> =>
    \A k \in DOMAIN FixedEnv(cgi.request) :
      (\A i \in 1..Len(cgi.request.headers) : cgi.request.headers[i].key # k)
        => cgi.env[k] = FixedEnv(cgi.request)[k]

\* C28, as stated: for every header (name, value) the environment has the key
\* HTTP_ and the name in upper case with underscores for hyphens, with that
\* value, unless a caller override replaces it; a header replaces the fixed key
\* of the same name (Host replaces HTTP_HOST), and no header changes another
\* fixed key.
C28_HeaderKeys ==
  /\ cgi.pc = "handed" =>
       \A i \in 1..Len(cgi.request.headers) :
         NotOverridden(cgi.request.headers[i].key)
           => /\ cgi.request.headers[i].key \in DOMAIN cgi.env
              /\ cgi.env[cgi.request.headers[i].key] = cgi.request.headers[i].value
  /\ FixedKeysKept

\* C28, amended: for every header the environment has the key HTTP_ and the
\* name in upper case with underscores for hyphens; its value is the value of
\* the last header of the request that has this key (two names that differ
\* only in hyphen and underscore have the same key), unless a caller override
\* replaces it; a header replaces the fixed key of the same name (Host replaces
\* HTTP_HOST), and no header changes another fixed key.
C28_HeaderKeys_Amended ==
  /\ cgi.pc = "handed" =>
       \A i \in 1..Len(cgi.request.headers) :
         NotOverridden(cgi.request.headers[i].key)
           => /\ cgi.request.headers[i].key \in DOMAIN cgi.env
              /\ cgi.env[cgi.request.headers[i].key] =
                   cgi.request.headers[
                     Max({j \in 1..Len(cgi.request.headers) :
                            cgi.request.headers[j].key = cgi.request.headers[i].key})].value
  /\ FixedKeysKept

\* a header name in lower case with a hyphen, and a Host header that replaced
\* the host of the URL
C28_Witness ==
  /\ cgi.pc = "handed"
  /\ \/ /\ \E i \in 1..Len(cgi.request.headers) :
             cgi.request.headers[i].name = <<"x", "-", "t", "e", "s", "t">>
        /\ NotOverridden(HTTP_X_TEST)
        /\ cgi.env[HTTP_X_TEST] = Str(<<"y", "e", "p">>)
     \/ /\ \E i \in 1..Len(cgi.request.headers) :
             cgi.request.headers[i].name = <<"H", "o", "s", "t">>
        /\ cgi.env[HTTP_HOST] = Str(<<"o", "t", "h", "e", "r", ".", "t", "e", "s", "t">>)
        /\ cgi.request.url.hostname # Str(<<"o", "t", "h", "e", "r", ".", "t", "e", "s", "t">>)

\* C29: building the environment raises for no request; every value of the
\* environment is a string, and a URL component that is absent (no host, no
\* query) gives the empty string, not None.
C29_EnvAllStrings ==
  /\ cgi.pc # "raised"
  /\ cgi.pc \in {"built", "handed"} =>
       \A k \in DOMAIN cgi.env : DOMAIN cgi.env[k] = {"str"}
  /\ cgi.pc = "env" /\ cgi.applied = <<"CGIAdapter">> =>
       /\ cgi.request.url.query = <<>> => cgi.env[QUERY_STRING] = Str(<<>>)
       /\ cgi.request.url.hostname = None => cgi.env[SERVER_NAME] = Str(<<>>)

C32_Blocked ==
  /\ call[1].pc = "await"
  /\ call[1].sawEnd
  /\ cgi.backend = "keeps open"
  /\ cgi.timeout = NoTimeout

\* C33: the receive loop is entered only when the socket has accepted every
\* byte of the packet, the empty Stdin record at its end included; and when
\* the send fails, execute_send raises an exception of requests (ConnectionError
\* or ReadTimeout) and the connection is closed.
C33_WholePacketSent ==
  \A c \in Callers :
    /\ call[c].pc = "await" =>
         /\ FullySent(c)
         /\ call[c].written = call[c].packet
    /\ call[c].pc = "done" /\ call[c].cause = "send: OSError" =>
         /\ call[c].outcome \in {"ReadTimeout", "ConnectionError: Could not connect",
                                  "ConnectionError: Unexpected socket error",
                                  "ConnectionError: Invalid response"}
         /\ socket = None

SERVER_ADDR == <<"S", "E", "R", "V", "E", "R", "_", "A", "D", "D", "R">>
SERVER_PORT == <<"S", "E", "R", "V", "E", "R", "_", "P", "O", "R", "T">>
REMOTE_PORT == <<"R", "E", "M", "O", "T", "E", "_", "P", "O", "R", "T">>

\* the adapter talks to its backend over a TCP address
OverTcp == cgi.adapter.connection.address_family = "AF_INET"

\* C34: for a FastCGI adapter over a TCP address, send raises for no request
\* while the environment is built, the connection is open when the helper of
\* FastCGIAdapter is called, on the first send and on every later one, and the
\* environment handed to execute_send holds SERVER_ADDR, SERVER_PORT,
\* REMOTE_ADDR and REMOTE_PORT as strings.
C34_PeerAddressKeys ==
  OverTcp =>
    /\ cgi.pc # "raised"
    /\ (cgi.pc = "env" /\ cgi.classes # <<>> /\ Head(cgi.classes) = "FastCGIAdapter") =>
         socket # None
    /\ cgi.pc = "handed" =>
         \A k \in {SERVER_ADDR, SERVER_PORT, REMOTE_ADDR, REMOTE_PORT} :
           k \in DOMAIN cgi.env /\ DOMAIN cgi.env[k] = {"str"}

====
